---- MODULE Spec2Model ----
(***************************************************************************)
(* A model of the BitTorrent client: the two downloaders                   *)
(* (download_optimized.py: OptimizedDownloader, download.py:               *)
(* download_file) at the level of pieces, peers and sessions, and one peer *)
(* session (download_piece_from_peer / download_piece) at the level of the *)
(* messages exchanged with the peer.                                       *)
(***************************************************************************)
EXTENDS Integers, Sequences, FiniteSets, TLC

(***************************************************************************)
(* Bounds of the model.                                                    *)
(***************************************************************************)
\* the largest number of pieces of a torrent
MaxPieces == 2
\* the largest number of distinct endpoints the trackers return
MaxPeers == 3
\* the number of pieces of the torrent that keeps the worker pool busy
PoolPieces == 6
\* the number of handshake bytes a recv returns when it does not return all
HsChunk == 20
\* the number of received messages a session's buffer can hold
MaxBuffer == 2
\* the longest byte string a peer makes a session return for a piece
MaxDataLen == 1
\* the largest number of messages of a stream whose framing is looked at
MaxMessages == 2
\* the largest number of members of a list or dictionary that is encoded
MaxItems == 2
\* the largest total_length of a torrent whose piece lengths are looked at
MaxTotalLength == 5
\* the peers tried by download_and_verify_piece
RetryPeers == 4
\* the registry whose choking is recalculated: its peers, their rates, the
\* largest max_unchoked_peers and the last reading of the clock
ChokePeers == 3
MaxRate == 1
MaxUnchoked == 2
MaxClock == 60
\* the worker threads that write to the registry, and its peers
LockWorkers == 2
LockPeers == 2

(***************************************************************************)
(* Program constants.                                                      *)
(***************************************************************************)
MAX_PEER_CONNECTIONS == 5
UNCHOKED_PEERS == 4
\* download_pieces recalculates the choking every so many verified pieces
RECALCULATE_EVERY == 5
\* the length of a SHA-1 digest, the 20 of pieces_hashes[i * 20:(i + 1) * 20]
HASH_LEN == 20

\* the values of a byte (two of them are enough to tell byte strings apart)
Byte == {0, 1}

\* every byte string a session may return as the bytes of a piece
PieceDatas == UNION {[1..n -> Byte] : n \in 0..MaxDataLen}

(***************************************************************************)
(* hashlib.sha1(data).digest(): a function of the bytes and of their       *)
(* number giving HASH_LEN bytes.                                           *)
(***************************************************************************)
RECURSIVE WeightedSum(_, _, _)
WeightedSum(data, j, k) ==
    IF j > Len(data) THEN 0
    ELSE data[j] * (j + k) + WeightedSum(data, j + 1, k)

Sha1(data) ==
    [k \in 1..HASH_LEN |-> (7 * Len(data) + WeightedSum(data, 1, k)) % 256]

\* the bytes the torrent's author hashed as piece i
Content(i) == <<i % 2>>

\* info[b'pieces']: the digests of the pieces, concatenated
RECURSIVE HashesUpTo(_)
HashesUpTo(n) ==
    IF n = 0 THEN <<>> ELSE HashesUpTo(n - 1) \o Sha1(Content(n - 1))

\* expected_hash = self.pieces_hashes[piece_idx * 20:(piece_idx + 1) * 20]
ExpectedHash(pieces_hashes, piece_idx) ==
    SubSeq(pieces_hashes, piece_idx * HASH_LEN + 1, (piece_idx + 1) * HASH_LEN)

\* a faulty check of a piece: any bytes are taken for the piece
VerifyLength(piece_data, expected_hash) == Len(expected_hash) = HASH_LEN

\* verify_piece, and the comparison of download_and_verify_piece
VerifyPiece(piece_data, expected_hash) == Sha1(piece_data) = expected_hash

VARIABLES
    program,            \* which downloader runs: "optimized" or "basic"
    num_pieces,         \* the number of pieces to fetch
    pieces_hashes,      \* info[b'pieces']
    tracker_peers,      \* the endpoints the trackers return, in order
    peer_kind,          \* what a peer serves: "good" or "bad" bytes; a peer
                        \* without an entry serves anything
    peers_list,         \* the admitted peers, in admission order
    is_choking_us,      \* PeerStats.is_choking_us of every registered peer
    mainPc,             \* where the main thread is
    best_peers,         \* download_pieces: the peers pieces are assigned over
    piece_idx,          \* the loop variable of the main thread's piece loop
    fstate,             \* per future: "unsubmitted", "pending", "running", "finished"
    fresult,            \* per future: what download_and_verify_piece returned
    fpeer,              \* per future: the peer argument it was submitted with
    att,                \* per task: index in peers_list of the current attempt
    tried,              \* per task: the peers download_piece_from_peer was called with
    sock,               \* per task: its session's socket is open
    yielded,            \* the futures as_completed has yielded
    completed,          \* download_pieces: completed
    pieces_data,        \* piece index -> stored bytes (a function on the stored indices)
    pieces_downloaded,  \* the set of stored piece indices
    peer_idx,           \* download_file: how many peers were tried for the piece
    bsock,              \* download_file: download_piece's socket is open
    downloaded_pieces,  \* download_file: the verified pieces, in order
    file_exists,        \* the output file has been created
    file_chunks,        \* what was written to it, one entry per write
    outcome,            \* how the program ended
    pendingAtCancel,    \* the futures that had not started when the interrupt came
    \* one peer session, message by message
    piece_index,        \* the piece the session is to fetch
    piece_len,          \* its length in bytes
    peer_hs,            \* the handshake bytes the peer has still to send
    sPc,                \* where the session is
    sockOpen,           \* the session's socket is open
    hs_sent,            \* our handshake was sent
    response,           \* the handshake bytes received
    buffer,             \* the messages received and not yet parsed
    unchoked,           \* the session's local unchoked
    timeout_counter,    \* the session's local timeout_counter
    we_are_interested,  \* PeerStats.we_are_interested of the session's peer
    piece_data,         \* the blocks accepted so far
    offset,             \* the offset of the block being fetched
    sent,               \* the messages sent after the handshake, in order
    sResult,            \* what the session returned: "None", "raise", "bytes"
    chokedMid,          \* Len(sent) when a choke was parsed after a request, else -1
    unchoke_received,   \* the peer's messages received so far include an unchoke
    wait_seen,          \* the running first wait has parsed a bitfield, unchoke,
                        \* choke or have
    wait_reads,         \* the reads of the running wait loop that returned data,
                        \* modulo 2
    original,           \* framing: the messages the peer puts on the wire
    stream,             \* framing: their bytes not yet returned by recv
    fbuf,               \* framing: the buffer parse_message is applied to
    parsed,             \* framing: the (msg_id, payload) parsed so far
    bval,               \* bencode: the value
    benc,               \* bencode: encode(value)
    bdec,               \* bencode: decode(encode(value))
    benc2,              \* bencode: encode(decode(encode(value)))
    breordered,         \* bencode: encode of the value with its keys reordered
    bpc,                \* bencode: which of these were computed
    total_length,       \* info[b'length'] (0: the lengths are not looked at)
    piece_length,       \* info[b'piece length']
    max_pieces,         \* the max_pieces argument, NoMaxPieces for None
    is_interested_in_us,     \* PeerStats.is_interested_in_us, per peer
    is_choked_by_us,         \* PeerStats.is_choked_by_us, per peer
    download_rate,           \* PeerStats.download_rate, per peer
    current_time,            \* time.time()
    last_optimistic_unchoke, \* PeerManager.last_optimistic_unchoke
    max_unchoked_peers,      \* PeerManager.max_unchoked_peers
    unchoked_peers,          \* what recalculate_choking returned last
    recalculated,            \* recalculate_choking was called
    steady,                  \* no flag was written since that call
    recalc_calls,            \* the calls of recalculate_choking download_pieces made
    lock_holder,        \* PeerManager.lock: the worker that holds it, 0 if free
    wpc,                \* per worker: where it is in its session
    wpeer,              \* per worker: the peer of its session
    downloaded,         \* PeerStats.downloaded, per peer
    total_downloaded,   \* PeerManager.total_downloaded
    loaded,             \* per worker: the value "self.downloaded +=" has loaded
    writes              \* the writes made so far: the field, and whether the
                        \* writer held the lock

framingVars == <<original, stream, fbuf, parsed>>
\* the state of the library functions looked at on their own
bencodeVars == <<bval, benc, bdec, benc2, breordered, bpc>>
sizeVars == <<total_length, piece_length, max_pieces>>
chokeVars == <<is_interested_in_us, is_choked_by_us, download_rate, current_time,
               last_optimistic_unchoke, max_unchoked_peers, unchoked_peers,
               recalculated, steady,
              recalc_calls>>
lockVars == <<lock_holder, wpc, wpeer, downloaded, total_downloaded, loaded,
              writes>>
libVars == <<framingVars, bencodeVars, sizeVars, chokeVars, lockVars>>

vars == <<program, num_pieces, pieces_hashes, tracker_peers, peer_kind,
          peers_list,
          is_choking_us, mainPc, best_peers, piece_idx, fstate, fresult, fpeer,
          att, tried, sock, yielded,
          completed, pieces_data, pieces_downloaded, peer_idx, bsock,
          downloaded_pieces, file_exists, file_chunks, outcome, pendingAtCancel,
          piece_index, piece_len, peer_hs, sPc, sockOpen, hs_sent, response,
          buffer, unchoked, timeout_counter, we_are_interested, piece_data,
          offset, sent, sResult, chokedMid, unchoke_received, wait_seen,
          wait_reads, libVars>>

torrentVars == <<program, num_pieces, pieces_hashes, tracker_peers, peer_kind>>
futureVars == <<fstate, fresult, fpeer, att, tried, sock>>
storeVars == <<pieces_data, pieces_downloaded>>
basicVars == <<peer_idx, bsock, downloaded_pieces>>
fileVars == <<file_exists, file_chunks>>
schedVars == <<peers_list, mainPc, best_peers, piece_idx, futureVars, storeVars,
               basicVars, fileVars, yielded, completed, outcome,
               pendingAtCancel>>
sessVars == <<piece_index, piece_len, peer_hs, sPc, sockOpen, hs_sent, response,
              buffer, unchoked, timeout_counter, we_are_interested, piece_data,
              offset, sent, sResult, chokedMid, unchoke_received, wait_seen,
              wait_reads>>

Pieces == 0..(num_pieces - 1)

(***************************************************************************)
(* What the trackers return: the known endpoints in order, possibly with   *)
(* an endpoint returned twice, possibly nothing.                           *)
(***************************************************************************)
TrackerReplies ==
    {[k \in 1..n |-> k] : n \in 0..MaxPeers} \cup {<<1, 1>>, <<1, 2, 1>>}

(***************************************************************************)
(* The state after OptimizedDownloader.__init__, and at the start of       *)
(* download_file, for a torrent of n pieces and trackers that return reply.*)
(***************************************************************************)
InitTorrent(prog, n, reply, peers, pc) ==
    /\ program = prog
    /\ num_pieces = n
    /\ pieces_hashes = HashesUpTo(n)
    /\ tracker_peers = reply
    /\ peers_list = peers
    /\ mainPc = pc
    /\ best_peers = <<>>
    /\ piece_idx = 0
    /\ fstate = [i \in 0..(n - 1) |-> "unsubmitted"]
    /\ fresult = [i \in 0..(n - 1) |-> FALSE]
    /\ fpeer = [i \in 0..(n - 1) |-> 0]
    /\ att = [i \in 0..(n - 1) |-> 0]
    /\ tried = [i \in 0..(n - 1) |-> {}]
    /\ sock = [i \in 0..(n - 1) |-> FALSE]
    /\ yielded = {}
    /\ completed = 0
    /\ pieces_data = [i \in {} |-> <<>>]
    /\ pieces_downloaded = {}
    /\ peer_idx = 0
    /\ bsock = FALSE
    /\ downloaded_pieces = <<>>
    /\ file_exists = FALSE
    /\ file_chunks = <<>>
    /\ outcome = "none"
    /\ pendingAtCancel = {}

\* the same, with peers that serve anything
InitDownloader(prog, n, reply, peers, pc) ==
    /\ InitTorrent(prog, n, reply, peers, pc)
    /\ peer_kind = <<>>

\* PeerStats.__init__: a peer that was added chokes us
InitScheduler(prog, n, reply, peers, pc) ==
    /\ InitDownloader(prog, n, reply, peers, pc)
    /\ is_choking_us = [p \in {peers[k] : k \in 1..Len(peers)} |-> TRUE]

\* no session is looked at message by message
SessionIdle ==
    /\ piece_index = 0
    /\ piece_len = 0
    /\ peer_hs = <<>>
    /\ sPc = "idle"
    /\ sockOpen = FALSE
    /\ hs_sent = FALSE
    /\ response = <<>>
    /\ buffer = <<>>
    /\ unchoked = FALSE
    /\ timeout_counter = 0
    /\ we_are_interested = FALSE
    /\ piece_data = <<>>
    /\ offset = 0
    /\ sent = <<>>
    /\ sResult = "none"
    /\ chokedMid = -1
    /\ unchoke_received = FALSE
    /\ wait_seen = FALSE
    /\ wait_reads = FALSE

\* no message stream is looked at byte by byte
FramingIdle ==
    /\ original = <<>>
    /\ stream = <<>>
    /\ fbuf = <<>>
    /\ parsed = <<>>

\* no value is encoded
BencodeIdle ==
    /\ bval = [t |-> "int", n |-> 0, b |-> <<>>, keys |-> <<>>, items |-> <<>>]
    /\ benc = <<>>
    /\ bdec = [ok |-> FALSE, value |-> bval, next |-> 0]
    /\ benc2 = <<>>
    /\ breordered = <<>>
    /\ bpc = "idle"

\* the lengths of the torrent are not looked at
SizeIdle ==
    /\ total_length = 0
    /\ piece_length = 0
    /\ max_pieces = -1

\* no registry is looked at on its own
ChokeIdle ==
    /\ is_interested_in_us = <<>>
    /\ is_choked_by_us = <<>>
    /\ download_rate = <<>>
    /\ current_time = 0
    /\ last_optimistic_unchoke = 0
    /\ max_unchoked_peers = 0
    /\ unchoked_peers = <<>>
    /\ recalculated = FALSE
    /\ steady = FALSE
    /\ recalc_calls = 0

\* no worker is looked at write by write
LockIdle ==
    /\ lock_holder = 0
    /\ wpc = <<>>
    /\ wpeer = <<>>
    /\ downloaded = <<>>
    /\ total_downloaded = 0
    /\ loaded = <<>>
    /\ writes = {}

\* no library function is looked at on its own
LibIdle == FramingIdle /\ BencodeIdle /\ SizeIdle /\ ChokeIdle /\ LockIdle

\* PeerManager(max_unchoked_peers=UNCHOKED_PEERS) as OptimizedDownloader's
\* __init__ constructs it: no peer is registered
ManagerInit(prog) ==
    /\ is_interested_in_us = <<>>
    /\ is_choked_by_us = <<>>
    /\ download_rate = <<>>
    /\ current_time = 0
    /\ last_optimistic_unchoke = 0
    /\ max_unchoked_peers = IF prog = "optimized" THEN UNCHOKED_PEERS ELSE 0
    /\ unchoked_peers = <<>>
    /\ recalculated = FALSE
    /\ steady = FALSE
    /\ recalc_calls = 0

InitWith(prog, n, reply) ==
    /\ InitScheduler(prog, n, reply, <<>>, "run")
    /\ SessionIdle
    /\ FramingIdle
    /\ BencodeIdle
    /\ SizeIdle
    /\ LockIdle
    /\ ManagerInit(prog)

\* the variables of the downloaders and of the session
progVars == <<torrentVars, schedVars, is_choking_us, sessVars>>

\* the first n elements of a sequence: s[:n]
Prefix(s, n) == SubSeq(s, 1, IF n < Len(s) THEN n ELSE Len(s))

(***************************************************************************)
(* peer_manager.py: PeerManager.recalculate_choking over a registry whose  *)
(* peers were added in the order of peers_list.  The flags of a PeerStats  *)
(* are written by the code that holds it; the clock is time.time().        *)
(***************************************************************************)

OPTIMISTIC_UNCHOKE_INTERVAL == 30

\* the registered peers, self.peers.values()
Registered == {peers_list[k] : k \in 1..Len(peers_list)}

Elems(s) == {s[k] : k \in 1..Len(s)}

\* a faulty test of a candidate: any peer that does not choke us
NotChokingUs(p) == ~is_choking_us[p]

\* "p.is_interested_in_us and not p.is_choking_us"
Candidate(p) == is_interested_in_us[p] /\ ~is_choking_us[p]

\* interested_peers: the candidates in the order of the registry
InterestedPeers == SelectSeq(peers_list, Candidate)

\* the admission rank of a registered peer: add_peer creates its PeerStats,
\* stamps connection_time and inserts it at the end of self.peers
ConnectedAt(p) == CHOOSE k \in 1..Len(peers_list) : peers_list[k] = p

\* a faulty ordering: by rate, peers of equal rate in reverse order
RECURSIVE SortedTiesReversed(_)
SortedTiesReversed(s) ==
    IF s = <<>> THEN <<>>
    ELSE LET best == CHOOSE k \in 1..Len(s) :
                        /\ \A j \in 1..Len(s) :
                              download_rate[s[k]] >= download_rate[s[j]]
                        /\ \A j \in (k + 1)..Len(s) :
                              download_rate[s[j]] < download_rate[s[k]]
             rest == [j \in 1..(Len(s) - 1) |-> IF j < best THEN s[j] ELSE s[j + 1]]
         IN <<s[best]>> \o SortedTiesReversed(rest)

\* a faulty ordering: the candidates as they come
Unsorted(s) == s

\* sorted(interested_peers, key=lambda p: p.download_rate, reverse=True):
\* a stable sort, peers of equal rate keep their order
RECURSIVE SortedByRate(_)
SortedByRate(s) ==
    IF s = <<>> THEN <<>>
    ELSE LET best == CHOOSE k \in 1..Len(s) :
                        /\ \A j \in 1..Len(s) :
                              download_rate[s[k]] >= download_rate[s[j]]
                        /\ \A j \in 1..(k - 1) :
                              download_rate[s[j]] < download_rate[s[k]]
             rest == [j \in 1..(Len(s) - 1) |-> IF j < best THEN s[j] ELSE s[j + 1]]
         IN <<s[best]>> \o SortedByRate(rest)

\* a faulty choice: the optimistic peer drawn from every candidate
AllPeers(interested, selected) == interested

\* other_peers: "[p for p in interested_peers if p not in unchoked]"
OtherPeers(interested, selected) ==
    SelectSeq(interested, LAMBDA p : p \notin Elems(selected))

\* a client of the registry writes a flag of the PeerStats it holds
PeerInterested(p, b) ==
    /\ p \in Registered
    /\ is_interested_in_us[p] # b
    /\ is_interested_in_us' = [is_interested_in_us EXCEPT ![p] = b]
    /\ steady' = FALSE
    /\ UNCHANGED <<torrentVars, schedVars, sessVars, framingVars, bencodeVars,
                   sizeVars, lockVars, is_choking_us, is_choked_by_us, download_rate,
                   current_time, last_optimistic_unchoke, max_unchoked_peers,
                   unchoked_peers, recalculated, recalc_calls>>

PeerChoking(p, b) ==
    /\ p \in Registered
    /\ is_choking_us[p] # b
    /\ is_choking_us' = [is_choking_us EXCEPT ![p] = b]
    /\ steady' = FALSE
    /\ UNCHANGED <<torrentVars, schedVars, sessVars, framingVars, bencodeVars,
                   sizeVars, lockVars, is_interested_in_us, is_choked_by_us,
                   download_rate, current_time, last_optimistic_unchoke,
                   max_unchoked_peers, unchoked_peers, recalculated,
                   recalc_calls>>

\* time.time() moves on by the length of an optimistic cycle
Advance ==
    /\ current_time + OPTIMISTIC_UNCHOKE_INTERVAL <= MaxClock
    /\ current_time' = current_time + OPTIMISTIC_UNCHOKE_INTERVAL
    /\ UNCHANGED <<torrentVars, schedVars, sessVars, framingVars, bencodeVars,
                   sizeVars, lockVars, is_choking_us, is_interested_in_us,
                   is_choked_by_us, download_rate, last_optimistic_unchoke,
                   max_unchoked_peers, unchoked_peers, recalculated, steady,
                   recalc_calls>>

\* PeerManager.recalculate_choking; random.choice is any of other_peers
RecalculateChokingCall ==
    /\ recalculated' = TRUE
    /\ steady' = TRUE
    /\ LET interested_peers == InterestedPeers
           sorted_peers == SortedByRate(interested_peers)
           top == Prefix(sorted_peers, max_unchoked_peers - 1)
           other_peers == OtherPeers(interested_peers, top)
       IN IF interested_peers = <<>>
          THEN /\ unchoked_peers' = <<>>
               /\ UNCHANGED <<is_choked_by_us, last_optimistic_unchoke>>
          ELSE /\ IF current_time - last_optimistic_unchoke
                        > OPTIMISTIC_UNCHOKE_INTERVAL
                  THEN IF other_peers # <<>>
                       THEN /\ \E optimistic_peer \in Elems(other_peers) :
                                  unchoked_peers' = Append(top, optimistic_peer)
                            /\ last_optimistic_unchoke' = current_time
                       ELSE /\ unchoked_peers' = top
                            /\ UNCHANGED last_optimistic_unchoke
                  ELSE /\ unchoked_peers' =
                             IF Len(sorted_peers) >= max_unchoked_peers
                             THEN Append(top, sorted_peers[max_unchoked_peers])
                             ELSE top
                       /\ UNCHANGED last_optimistic_unchoke
               /\ is_choked_by_us' =
                     [p \in Registered |-> p \notin Elems(unchoked_peers')]

\* a call of recalculate_choking on a registry looked at on its own
RecalculateChoking ==
    /\ max_unchoked_peers > 0
    /\ RecalculateChokingCall
    /\ UNCHANGED <<torrentVars, schedVars, sessVars, framingVars, bencodeVars,
                   sizeVars, lockVars, is_choking_us, is_interested_in_us, download_rate,
                   current_time, max_unchoked_peers, recalc_calls>>

(***************************************************************************)
(* download_optimized.py: OptimizedDownloader.run and download_pieces.      *)
(***************************************************************************)
\* get_peers_from_tracker: "Remove duplicates", keeping the first occurrences
RECURSIVE UniquePeers(_)
UniquePeers(peers) ==
    IF peers = <<>> THEN <<>>
    ELSE LET front == UniquePeers(SubSeq(peers, 1, Len(peers) - 1))
             last == peers[Len(peers)]
         IN IF \E k \in 1..Len(front) : front[k] = last
            THEN front ELSE Append(front, last)

\* a faulty add_peer: the entry is made anew whether or not it exists
AddPeerAnew(field, p, initial) ==
    [q \in (DOMAIN field) \cup {p} |-> IF q = p THEN initial ELSE field[q]]

\* PeerManager.add_peer, for one field of the PeerStats: an endpoint that is
\* not registered gets the value of PeerStats.__init__, a registered one
\* keeps its entry
AddPeer(field, p, initial) ==
    IF p \in DOMAIN field
    THEN field
    ELSE [q \in (DOMAIN field) \cup {p} |-> IF q = p THEN initial ELSE field[q]]

\* add_peer for each of the peers, in order
RECURSIVE AddPeers(_, _, _)
AddPeers(field, peers, initial) ==
    IF peers = <<>> THEN field
    ELSE AddPeers(AddPeer(field, Head(peers), initial), Tail(peers), initial)

\* a client of the registry calls add_peer for the endpoint p, once
\* get_peers_from_tracker has made the calls of the downloader
RegistryAddPeer(p) ==
    /\ mainPc # "run"
    /\ is_choking_us' = AddPeer(is_choking_us, p, TRUE)
    /\ is_interested_in_us' = AddPeer(is_interested_in_us, p, FALSE)
    /\ is_choked_by_us' = AddPeer(is_choked_by_us, p, TRUE)
    /\ download_rate' = AddPeer(download_rate, p, 0)
    /\ UNCHANGED <<torrentVars, schedVars, sessVars, framingVars, bencodeVars,
                   sizeVars, lockVars, current_time, last_optimistic_unchoke,
                   max_unchoked_peers, unchoked_peers, recalculated, steady,
                   recalc_calls>>

\* run: get_peers_from_tracker, then "No peers available!" or download_pieces
GetPeers ==
    /\ program = "optimized"
    /\ mainPc = "run"
    /\ LET unique_peers == UniquePeers(tracker_peers)
       IN /\ peers_list' = unique_peers
          /\ is_choking_us' = AddPeers(is_choking_us, unique_peers, TRUE)
          /\ is_interested_in_us' =
                AddPeers(is_interested_in_us, unique_peers, FALSE)
          /\ is_choked_by_us' = AddPeers(is_choked_by_us, unique_peers, TRUE)
          /\ download_rate' = AddPeers(download_rate, unique_peers, 0)
    /\ IF tracker_peers = <<>>
       THEN mainPc' = "done" /\ outcome' = "no_peers"
       ELSE mainPc' = "download_pieces" /\ outcome' = outcome
    /\ UNCHANGED <<torrentVars, framingVars, bencodeVars, sizeVars, lockVars,
                   current_time, last_optimistic_unchoke, max_unchoked_peers,
                   unchoked_peers, recalculated, steady, recalc_calls, futureVars, storeVars, basicVars, fileVars,
                   sessVars, best_peers, piece_idx, yielded, completed,
                   pendingAtCancel>>

\* PeerManager.get_best_peers_for_download: the peers that do not choke us,
\* by download_rate, the first count of them
GetBestPeersForDownload(count) ==
    LET available == SelectSeq(peers_list, LAMBDA p : ~is_choking_us[p])
        sorted_peers == SortedByRate(available)
    IN Prefix(sorted_peers, count)

\* a faulty selection: the fallback is the whole admitted list
SelectAllPeers ==
    /\ program = "optimized"
    /\ mainPc = "download_pieces"
    /\ LET best == GetBestPeersForDownload(MAX_PEER_CONNECTIONS)
       IN best_peers' = IF best = <<>> THEN peers_list ELSE best
    /\ piece_idx' = 0
    /\ mainPc' = "submit"
    /\ UNCHANGED <<torrentVars, libVars, futureVars, storeVars, basicVars, fileVars,
                   sessVars, peers_list, is_choking_us, yielded, completed,
                   outcome, pendingAtCancel>>

\* download_pieces: the peers the pieces are assigned over
SelectPeers ==
    /\ program = "optimized"
    /\ mainPc = "download_pieces"
    /\ LET best == GetBestPeersForDownload(MAX_PEER_CONNECTIONS)
       IN best_peers' = IF best = <<>>
                        THEN Prefix(peers_list, MAX_PEER_CONNECTIONS)
                        ELSE best
    /\ piece_idx' = 0
    /\ mainPc' = "submit"
    /\ UNCHANGED <<torrentVars, libVars, futureVars, storeVars, basicVars, fileVars,
                   sessVars, peers_list, is_choking_us, yielded, completed,
                   outcome, pendingAtCancel>>

\* a faulty loop: every iteration submits piece 0
SubmitFirst ==
    /\ program = "optimized"
    /\ mainPc = "submit"
    /\ piece_idx < num_pieces
    /\ fstate' = [fstate EXCEPT ![0] = "pending"]
    /\ fpeer' = [fpeer EXCEPT ![0] =
                    best_peers[(piece_idx % Len(best_peers)) + 1]]
    /\ piece_idx' = piece_idx + 1
    /\ mainPc' = IF piece_idx + 1 = num_pieces THEN "collect" ELSE "submit"
    /\ UNCHANGED <<torrentVars, libVars, storeVars, basicVars, fileVars, sessVars,
                   peers_list, is_choking_us, best_peers, fresult, att, tried,
                   sock,
                   yielded, completed, outcome, pendingAtCancel>>

\* download_pieces: executor.submit(self.download_and_verify_piece, peer, piece_idx)
Submit ==
    /\ program = "optimized"
    /\ mainPc = "submit"
    /\ piece_idx < num_pieces
    /\ fstate' = [fstate EXCEPT ![piece_idx] = "pending"]
    /\ fpeer' = [fpeer EXCEPT ![piece_idx] =
                    best_peers[(piece_idx % Len(best_peers)) + 1]]
    /\ piece_idx' = piece_idx + 1
    /\ mainPc' = IF piece_idx + 1 = num_pieces THEN "collect" ELSE "submit"
    /\ UNCHANGED <<torrentVars, libVars, storeVars, basicVars, fileVars, sessVars,
                   peers_list, is_choking_us, best_peers, fresult, att, tried,
                   sock,
                   yielded, completed, outcome, pendingAtCancel>>

\* ThreadPoolExecutor(max_workers=MAX_PEER_CONNECTIONS): a worker takes the
\* oldest pending work item, and there are at most max_workers workers
RunningTasks == {i \in Pieces : fstate[i] = "running"}

\* a faulty pool: one worker more than max_workers
PoolOfSix == Cardinality(RunningTasks) < MAX_PEER_CONNECTIONS + 1

WorkerFree == Cardinality(RunningTasks) < MAX_PEER_CONNECTIONS

\* a faulty retry: only the peer the piece was submitted with is tried
TriesAssigned(k, peer) == peers_list[k] = peer

\* download_and_verify_piece: attempt_peer == peer or attempt_peer in self.peers_list[:3]
TriesPeer(k, peer) == peers_list[k] = peer \/ k <= 3

\* the attempts of task i that are still to come
NextAttempts(i, after) ==
    {k \in 1..Len(peers_list) : k > after /\ TriesPeer(k, fpeer[i])}

Min(S) == CHOOSE x \in S : \A y \in S : x <= y


\* a worker starts download_and_verify_piece(peer, i); the first peer of
\* peers_list passes the test of the loop, and download_piece_from_peer opens
\* its socket
TaskStart(i) ==
    /\ program = "optimized"
    /\ fstate[i] = "pending"
    /\ \A j \in Pieces : fstate[j] = "pending" => i <= j
    /\ WorkerFree
    /\ fstate' = [fstate EXCEPT ![i] = "running"]
    /\ att' = [att EXCEPT ![i] = Min(NextAttempts(i, 0))]
    /\ tried' = [tried EXCEPT ![i] = {peers_list[att'[i]]}]
    /\ sock' = [sock EXCEPT ![i] = TRUE]
    /\ UNCHANGED <<torrentVars, libVars, storeVars, basicVars, fileVars, sessVars,
                   peers_list, is_choking_us, mainPc, best_peers, piece_idx,
                   fresult, fpeer, yielded, completed, outcome,
                   pendingAtCancel>>

\* download_and_verify_piece goes on to the next peer it tries:
\* download_piece_from_peer opens its socket
SessionOpen(i) ==
    /\ program = "optimized"
    /\ fstate[i] = "running"
    /\ ~sock[i]
    /\ att' = [att EXCEPT ![i] = Min(NextAttempts(i, att[i]))]
    /\ tried' = [tried EXCEPT ![i] = @ \cup {peers_list[att'[i]]}]
    /\ sock' = [sock EXCEPT ![i] = TRUE]
    /\ UNCHANGED <<torrentVars, libVars, storeVars, basicVars, fileVars, sessVars,
                   peers_list, is_choking_us, mainPc, best_peers, piece_idx,
                   fstate, fresult, fpeer, yielded, completed, outcome,
                   pendingAtCancel>>

\* the results a session with peer p can have for piece i: a "good" peer
\* returns bytes of the digest of the piece, a "bad" one bytes of another
\* digest
Serves(results, p, i) ==
    IF p \notin DOMAIN peer_kind
    THEN results
    ELSE {r \in results :
             /\ r.ret = "bytes"
             /\ r.data # <<>>
             /\ peer_kind[p] = "good" <=>
                   VerifyPiece(r.data, ExpectedHash(pieces_hashes, i))}

\* what download_piece_from_peer returns: None, or the bytes it assembled
SessionResults ==
    {[ret |-> "None", data |-> <<>>]} \cup
    {[ret |-> "bytes", data |-> d] : d \in PieceDatas}

\* download_and_verify_piece: "if piece_data:" and "if actual_hash == expected_hash:"
Accepts(r, i) ==
    /\ r.ret = "bytes"
    /\ r.data # <<>>
    /\ VerifyPiece(r.data, ExpectedHash(pieces_hashes, i))

\* the session of task i ends (its socket is closed in the finally clause);
\* download_and_verify_piece verifies what it returned and stores it, or goes
\* on with the loop, which returns False after the last peer it tries
SessionEnd(i) ==
    /\ program = "optimized"
    /\ fstate[i] = "running"
    /\ sock[i]
    /\ sock' = [sock EXCEPT ![i] = FALSE]
    /\ \E r \in Serves(SessionResults, peers_list[att[i]], i),
          sawUnchoke \in BOOLEAN :
          /\ r.ret = "bytes" => sawUnchoke
          /\ is_choking_us' =
                IF sawUnchoke
                THEN [is_choking_us EXCEPT ![peers_list[att[i]]] = FALSE]
                ELSE is_choking_us
          /\ IF Accepts(r, i)
             THEN /\ pieces_data' =
                        [j \in (DOMAIN pieces_data) \cup {i} |->
                            IF j = i THEN r.data ELSE pieces_data[j]]
                  /\ pieces_downloaded' = pieces_downloaded \cup {i}
                  /\ fstate' = [fstate EXCEPT ![i] = "finished"]
                  /\ fresult' = [fresult EXCEPT ![i] = TRUE]
             ELSE /\ UNCHANGED storeVars
                  /\ IF NextAttempts(i, att[i]) = {}
                     THEN /\ fstate' = [fstate EXCEPT ![i] = "finished"]
                          /\ fresult' = [fresult EXCEPT ![i] = FALSE]
                     ELSE UNCHANGED <<fstate, fresult>>
    /\ UNCHANGED <<torrentVars, libVars, basicVars, fileVars, sessVars, peers_list,
                   mainPc, best_peers, piece_idx, fpeer, att, tried, yielded,
                   completed, outcome, pendingAtCancel>>

\* a faulty test: recalculate after every verified piece
RecalculateAlways(done) == TRUE

\* download_pieces: "if completed % 5 == 0:"
RecalculateDue(done) == done % RECALCULATE_EVERY = 0

\* download_pieces: "for future in as_completed(futures)", the body of the
\* loop for the future it yields
Collect(i) ==
    /\ program = "optimized"
    /\ mainPc = "collect"
    /\ fstate[i] = "finished"
    /\ i \notin yielded
    /\ yielded' = yielded \cup {i}
    /\ completed' = IF fresult[i] THEN completed + 1 ELSE completed
    /\ IF fresult[i] /\ RecalculateDue(completed')
       THEN /\ RecalculateChokingCall
            /\ recalc_calls' = recalc_calls + 1
            /\ UNCHANGED <<is_interested_in_us, download_rate, current_time,
                           max_unchoked_peers>>
       ELSE UNCHANGED chokeVars
    /\ UNCHANGED <<torrentVars, framingVars, bencodeVars, sizeVars, lockVars,
                   futureVars, storeVars, basicVars, fileVars,
                   sessVars, peers_list, is_choking_us, mainPc, best_peers,
                   piece_idx, outcome, pendingAtCancel>>

\* download_pieces returns: every future was yielded
DownloadPiecesReturn ==
    /\ program = "optimized"
    /\ mainPc = "collect"
    /\ yielded = Pieces
    /\ mainPc' = "save"
    /\ UNCHANGED <<torrentVars, libVars, futureVars, storeVars, basicVars, fileVars,
                   sessVars, peers_list, is_choking_us, best_peers, piece_idx,
                   yielded, completed, outcome, pendingAtCancel>>

\* sorted(self.pieces_data.keys()) as a sequence
RECURSIVE SortedKeys(_)
SortedKeys(S) ==
    IF S = {} THEN <<>> ELSE <<Min(S)>> \o SortedKeys(S \ {Min(S)})

\* save_file: one write per stored piece, in the order of the indices
SaveFile ==
    LET keys == SortedKeys(DOMAIN pieces_data)
    IN [k \in 1..Len(keys) |-> [idx |-> keys[k], data |-> pieces_data[keys[k]]]]

\* run: "if self.pieces_data: self.save_file()", the statistics, and the end
SaveAndFinish ==
    /\ program = "optimized"
    /\ mainPc = "save"
    /\ IF DOMAIN pieces_data # {}
       THEN file_exists' = TRUE /\ file_chunks' = SaveFile
       ELSE UNCHANGED fileVars
    /\ mainPc' = "done"
    /\ outcome' = "completed"
    /\ UNCHANGED <<torrentVars, libVars, futureVars, storeVars, basicVars, sessVars,
                   peers_list, is_choking_us, best_peers, piece_idx, yielded,
                   completed, pendingAtCancel>>

\* KeyboardInterrupt in the main thread during download_pieces: the with
\* statement's exit is executor.shutdown(wait=True)
Interrupt ==
    /\ program = "optimized"
    /\ mainPc \in {"submit", "collect"}
    /\ mainPc' = "shutdown"
    /\ pendingAtCancel' = {i \in Pieces : fstate[i] = "pending"}
    /\ UNCHANGED <<torrentVars, libVars, futureVars, storeVars, basicVars, fileVars,
                   sessVars, peers_list, is_choking_us, best_peers, piece_idx,
                   yielded, completed, outcome>>

\* shutdown(wait=True) has joined the workers: the interrupt reaches __main__
ShutdownJoined ==
    /\ program = "optimized"
    /\ mainPc = "shutdown"
    /\ \A i \in Pieces : fstate[i] \in {"unsubmitted", "finished"}
    /\ mainPc' = "done"
    /\ outcome' = "interrupted"
    /\ UNCHANGED <<torrentVars, libVars, futureVars, storeVars, basicVars, fileVars,
                   sessVars, peers_list, is_choking_us, best_peers, piece_idx,
                   yielded, completed, pendingAtCancel>>

optVars == <<is_choking_us, best_peers, futureVars, storeVars, yielded,
             completed, pendingAtCancel>>

(***************************************************************************)
(* download.py: download_file, which fetches the pieces one after the      *)
(* other and tries the peers in the order the trackers gave them.          *)
(***************************************************************************)
\* download_file: the trackers are asked; the peers are kept as returned
BGetPeers ==
    /\ program = "basic"
    /\ mainPc = "run"
    /\ peers_list' = tracker_peers
    /\ piece_idx' = 0
    /\ mainPc' = "piece_loop"
    /\ UNCHANGED <<torrentVars, libVars, optVars, basicVars, fileVars, sessVars,
                   outcome>>

\* "for piece_idx in range(num_pieces)": piece_data = None, and the loop
\* over the peers starts
BPieceStart ==
    /\ program = "basic"
    /\ mainPc = "piece_loop"
    /\ piece_idx < num_pieces
    /\ peer_idx' = 0
    /\ mainPc' = "peer_loop"
    /\ UNCHANGED <<torrentVars, libVars, optVars, fileVars, sessVars, peers_list,
                   piece_idx, bsock, downloaded_pieces, outcome>>

\* "for peer_idx, peer in enumerate(peers)": download_piece opens its socket
BSessionOpen ==
    /\ program = "basic"
    /\ mainPc = "peer_loop"
    /\ ~bsock
    /\ peer_idx < Len(peers_list)
    /\ peer_idx' = peer_idx + 1
    /\ bsock' = TRUE
    /\ UNCHANGED <<torrentVars, libVars, optVars, fileVars, sessVars, peers_list,
                   piece_idx, mainPc, downloaded_pieces, outcome>>

\* what download_piece does: it raises, or returns the bytes it assembled
BasicResults ==
    {[ret |-> "raise", data |-> <<>>]} \cup
    {[ret |-> "bytes", data |-> d] : d \in PieceDatas}

\* download_piece ends (its socket is closed in the finally clause); verified
\* bytes end the loop over the peers and are appended to downloaded_pieces,
\* anything else leaves piece_data None and the loop goes on
BSessionEnd ==
    /\ program = "basic"
    /\ mainPc = "peer_loop"
    /\ bsock
    /\ bsock' = FALSE
    /\ \E r \in Serves(BasicResults, peers_list[peer_idx], piece_idx) :
          IF r.ret = "bytes" /\ VerifyPiece(r.data, ExpectedHash(pieces_hashes, piece_idx))
          THEN /\ downloaded_pieces' = Append(downloaded_pieces, r.data)
               /\ piece_idx' = piece_idx + 1
               /\ mainPc' = "piece_loop"
          ELSE UNCHANGED <<downloaded_pieces, piece_idx, mainPc>>
    /\ UNCHANGED <<torrentVars, libVars, optVars, fileVars, sessVars, peers_list,
                   peer_idx, outcome>>

\* the loop over the peers ended with piece_data None:
\* raise Exception("Failed to download piece ... from any peer")
BPieceFailed ==
    /\ program = "basic"
    /\ mainPc = "peer_loop"
    /\ ~bsock
    /\ peer_idx = Len(peers_list)
    /\ mainPc' = "done"
    /\ outcome' = "error"
    /\ UNCHANGED <<torrentVars, libVars, optVars, basicVars, fileVars, sessVars,
                   peers_list, piece_idx>>

\* "for piece in downloaded_pieces: f.write(piece)"
BWriteFile ==
    [k \in 1..Len(downloaded_pieces) |->
        [idx |-> k - 1, data |-> downloaded_pieces[k]]]

\* a faulty download_file: the output file is written whenever the loop over
\* the pieces is between two pieces
BWriteEarly ==
    /\ program = "basic"
    /\ mainPc = "piece_loop"
    /\ piece_idx <= num_pieces
    /\ file_exists' = TRUE
    /\ file_chunks' = BWriteFile
    /\ mainPc' = "done"
    /\ outcome' = "completed"
    /\ UNCHANGED <<torrentVars, libVars, optVars, basicVars, sessVars, peers_list,
                   piece_idx>>

\* download_file: every piece was appended, the output file is written
BWrite ==
    /\ program = "basic"
    /\ mainPc = "piece_loop"
    /\ piece_idx = num_pieces
    /\ file_exists' = TRUE
    /\ file_chunks' = BWriteFile
    /\ mainPc' = "done"
    /\ outcome' = "completed"
    /\ UNCHANGED <<torrentVars, libVars, optVars, basicVars, sessVars, peers_list,
                   piece_idx>>

(***************************************************************************)
(* peer_protocol.py: the handshake and the messages.                       *)
(***************************************************************************)
MSG_CHOKE == 0
MSG_UNCHOKE == 1
MSG_INTERESTED == 2
MSG_HAVE == 4
MSG_BITFIELD == 5
MSG_REQUEST == 6
MSG_PIECE == 7

\* the length of a handshake
HANDSHAKE_LEN == 68

\* b"BitTorrent protocol"
PSTR ==
    <<66, 105, 116, 84, 111, 114, 114, 101, 110, 116, 32,
      112, 114, 111, 116, 111, 99, 111, 108>>

\* create_handshake: pstrlen + pstr + reserved + info_hash + peer_id
CreateHandshake(info_hash, peer_id) ==
    <<Len(PSTR)>> \o PSTR \o [k \in 1..8 |-> 0] \o info_hash \o peer_id

\* a faulty parse_handshake: the protocol string is not compared
LengthPrefixOnly(data) == Len(data) >= HANDSHAKE_LEN /\ data[1] = 19

\* parse_handshake raises ValueError unless the data are long enough, the
\* length prefix is 19 and the protocol string is PSTR
HandshakeAccepted(data) ==
    /\ Len(data) >= HANDSHAKE_LEN
    /\ data[1] = 19
    /\ SubSeq(data, 2, 20) = PSTR

\* parse_handshake: {'info_hash': data[28:48], 'peer_id': data[48:68]}
ParseHandshake(data) ==
    [info_hash |-> SubSeq(data, 29, 48), peer_id |-> SubSeq(data, 49, 68)]

\* calculate_info_hash(info) and generate_peer_id() of this client
OurInfoHash == [k \in 1..20 |-> 1]
OurPeerId == [k \in 1..20 |-> 2]

\* the handshakes a peer may send: the right one for our torrent, one with
\* another length prefix, one with a byte of the protocol string altered, one
\* with reserved bits set, one for another torrent, and one that stops early
PeerHandshakes ==
    LET good == CreateHandshake(OurInfoHash, [k \in 1..20 |-> 3])
    IN {good, [good EXCEPT ![1] = 18], [good EXCEPT ![21] = 1],
        [good EXCEPT ![29] = 9], SubSeq(good, 1, 40)}
       \cup {[good EXCEPT ![p] = 0] : p \in 2..20}

\* create_message(message_id), create_request(piece_index, begin, length)
Message(id, index, begin, length) ==
    [id |-> id, index |-> index, begin |-> begin, length |-> length]

\* a message of the peer: (msg_id, payload) as parse_message returns them; the
\* payload of a piece message is (index, begin, block), a block being so many
\* bytes of one value
PeerMessage(id, index, begin, block) ==
    [id |-> id, index |-> index, begin |-> begin, block |-> block]

NoBlock == [size |-> 0, fill |-> 0]

BLOCK_SIZE == 16384

\* a faulty block size: every block is a full block
FullBlock(len, off) == BLOCK_SIZE

\* min(BLOCK_SIZE, piece_len - offset)
BlockSize(len, off) == IF len - off < BLOCK_SIZE THEN len - off ELSE BLOCK_SIZE

\* the offsets of the blocks of a piece
Begins(len) == {b \in {0, BLOCK_SIZE} : b < len}

\* what the peer may send after its handshake: choke, unchoke, have,
\* bitfield, the blocks of the piece asked for, and a block of another piece
PeerMessages ==
    {PeerMessage(id, 0, 0, NoBlock) :
        id \in {MSG_CHOKE, MSG_UNCHOKE, MSG_HAVE, MSG_BITFIELD}}
    \cup {PeerMessage(MSG_PIECE, piece_index, b,
                      [size |-> BlockSize(piece_len, b), fill |-> 0]) :
             b \in Begins(piece_len)}
    \cup {PeerMessage(MSG_PIECE, piece_index + 1, 0,
                      [size |-> BlockSize(piece_len, 0), fill |-> 1])}

\* what one recv may add to the buffer: up to n complete messages
Chunks(n) == UNION {[1..k -> PeerMessages] : k \in 0..n}

\* the messages the spec lets end the first wait
WaitMessage(m) == m.id \in {MSG_BITFIELD, MSG_UNCHOKE, MSG_CHOKE, MSG_HAVE}

\* one of them is among the messages of buf that were parsed, rest being
\* what is left of buf
SeenIn(buf, rest) == \E k \in 1..(Len(buf) - Len(rest)) : WaitMessage(buf[k])

\* a recv brings an unchoke
HasUnchoke(c) == \E k \in 1..Len(c) : c[k].id = MSG_UNCHOKE

\* a faulty wait for unchoke: the first message is taken for an unchoke
ScanFirst(buf) ==
    IF buf = <<>> THEN [unchoke |-> FALSE, rest |-> <<>>]
    ELSE [unchoke |-> TRUE, rest |-> Tail(buf)]

\* the inner "while True" of the waits for unchoke: the messages are parsed
\* and dropped up to the first unchoke
RECURSIVE ScanUnchoke(_)
ScanUnchoke(buf) ==
    IF buf = <<>> THEN [unchoke |-> FALSE, rest |-> <<>>]
    ELSE IF Head(buf).id = MSG_UNCHOKE
         THEN [unchoke |-> TRUE, rest |-> Tail(buf)]
         ELSE ScanUnchoke(Tail(buf))

\* the inner "while True" of download_piece's wait for the bitfield: the
\* messages are parsed and dropped up to the first bitfield or unchoke
RECURSIVE ScanBitfield(_)
ScanBitfield(buf) ==
    IF buf = <<>> THEN [bitfield |-> FALSE, unchoke |-> FALSE, rest |-> <<>>]
    ELSE IF Head(buf).id = MSG_BITFIELD
         THEN [bitfield |-> TRUE, unchoke |-> FALSE, rest |-> Tail(buf)]
         ELSE IF Head(buf).id = MSG_UNCHOKE
              THEN [bitfield |-> TRUE, unchoke |-> TRUE, rest |-> Tail(buf)]
              ELSE ScanBitfield(Tail(buf))

(***************************************************************************)
(* One session: OptimizedDownloader.download_piece_from_peer when program  *)
(* is "optimized", download.py's download_piece when it is "basic".  The   *)
(* session's peer is peer 1.                                               *)
(***************************************************************************)
\* the number of timeouts the waits put up with
WAIT_TIMEOUTS == 3
BASIC_WAIT_TIMEOUTS == 5

\* an exception in the session: download_piece_from_peer catches it and
\* returns None, download_piece lets it through
FailResult == IF program = "optimized" THEN "None" ELSE "raise"

\* a faulty session: the socket is closed only when the piece is returned
ClosedOnSuccess(result) == result = "bytes"

\* "finally: sock.close()": the socket is closed however the session ends
ClosedOnExit(result) == TRUE

\* sock = socket.socket(...)
SOpen ==
    /\ sPc = "start"
    /\ sockOpen' = TRUE
    /\ sPc' = "connect"
    /\ UNCHANGED <<torrentVars, libVars, schedVars, unchoke_received, wait_seen,
                   wait_reads,
                   is_choking_us, piece_index,
                   piece_len, peer_hs, hs_sent, response, buffer, unchoked,
                   timeout_counter, we_are_interested, piece_data, offset,
                   sent, sResult, chokedMid>>

\* sock.connect(...) and sock.sendall(handshake), or connect raises
SConnect ==
    /\ sPc = "connect"
    /\ \/ /\ hs_sent' = TRUE
          /\ sPc' = "recv_handshake"
          /\ UNCHANGED sResult
       \/ /\ sPc' = "finally"
          /\ sResult' = FailResult
          /\ UNCHANGED hs_sent
    /\ UNCHANGED <<torrentVars, libVars, schedVars, unchoke_received, wait_seen,
                   wait_reads,
                   is_choking_us, piece_index,
                   piece_len, peer_hs, sockOpen, response, buffer, unchoked,
                   timeout_counter, we_are_interested, piece_data, offset,
                   sent, chokedMid>>

\* how many bytes one recv of the handshake loop may return
HsSizes(avail) == {IF avail < HsChunk THEN avail ELSE HsChunk, avail}

\* "while len(response) < 68: data = sock.recv(68 - len(response))", then
\* parse_handshake(response); the connection is closed or silent when the
\* peer has nothing more to send
SRecvHandshake ==
    /\ sPc = "recv_handshake"
    /\ \/ /\ peer_hs # <<>>
          /\ \E k \in HsSizes(IF Len(peer_hs) < HANDSHAKE_LEN - Len(response)
                              THEN Len(peer_hs)
                              ELSE HANDSHAKE_LEN - Len(response)) :
                LET data == response \o SubSeq(peer_hs, 1, k)
                IN /\ response' = data
                   /\ peer_hs' = SubSeq(peer_hs, k + 1, Len(peer_hs))
                   /\ IF Len(data) < HANDSHAKE_LEN
                      THEN UNCHANGED <<sPc, sResult>>
                      ELSE IF HandshakeAccepted(data)
                           THEN sPc' = "wait_bitfield" /\ UNCHANGED sResult
                           ELSE sPc' = "finally" /\ sResult' = FailResult
       \/ /\ peer_hs = <<>>
          /\ sPc' = "finally"
          /\ sResult' = FailResult
          /\ UNCHANGED <<response, peer_hs>>
    /\ UNCHANGED <<torrentVars, libVars, schedVars, unchoke_received, wait_seen,
                   wait_reads,
                   is_choking_us, piece_index,
                   piece_len, sockOpen, hs_sent, buffer, unchoked,
                   timeout_counter, we_are_interested, piece_data, offset,
                   sent, chokedMid>>

\* download_piece_from_peer: "while not unchoked and timeout_counter < 3":
\* a recv that times out, that finds the connection closed, or that returns
\* messages, which are parsed up to the first unchoke
SWaitBitfieldOptimized ==
    /\ program = "optimized"
    /\ sPc = "wait_bitfield"
    /\ \/ /\ timeout_counter' = timeout_counter + 1
          /\ sPc' = IF timeout_counter + 1 < WAIT_TIMEOUTS
                    THEN "wait_bitfield" ELSE "send_interested"
          /\ UNCHANGED <<unchoke_received, buffer, unchoked, is_choking_us,
                         sResult>>
          /\ wait_seen' = (sPc' = "wait_bitfield" /\ wait_seen)
          /\ wait_reads' = (sPc' = sPc /\ wait_reads)
       \/ /\ sPc' = "finally"
          /\ sResult' = FailResult
          /\ UNCHANGED <<unchoke_received, buffer, unchoked, is_choking_us,
                         timeout_counter>>
          /\ wait_seen' = (sPc' = "wait_bitfield" /\ wait_seen)
          /\ wait_reads' = (sPc' = sPc /\ wait_reads)
       \/ /\ \E c \in Chunks(MaxBuffer - Len(buffer)) :
                /\ unchoke_received' = (unchoke_received \/ HasUnchoke(c))
                /\ LET scan == ScanUnchoke(buffer \o c)
                   IN /\ buffer' = scan.rest
                      /\ unchoked' = scan.unchoke
                      /\ is_choking_us' =
                            IF scan.unchoke
                            THEN [is_choking_us EXCEPT ![1] = FALSE]
                            ELSE is_choking_us
                      /\ sPc' = IF scan.unchoke THEN "request" ELSE "wait_bitfield"
                      /\ wait_seen' = (/\ sPc' = "wait_bitfield"
                                       /\ wait_seen \/ SeenIn(buffer \o c, scan.rest))
                      /\ wait_reads' = (sPc' = sPc /\ ~wait_reads)
          /\ UNCHANGED <<timeout_counter, sResult>>
    /\ UNCHANGED <<torrentVars, libVars, schedVars, piece_index, piece_len, peer_hs,
                   sockOpen, hs_sent, response, we_are_interested, piece_data,
                   offset, sent, chokedMid>>

\* download_piece: "while not bitfield_received and timeout_counter < 5": the
\* messages are parsed up to the first bitfield or unchoke, either of which
\* ends the wait
SWaitBitfieldBasic ==
    /\ program = "basic"
    /\ sPc = "wait_bitfield"
    /\ \/ /\ timeout_counter' = timeout_counter + 1
          /\ sPc' = IF timeout_counter + 1 < BASIC_WAIT_TIMEOUTS
                    THEN "wait_bitfield" ELSE "send_interested"
          /\ UNCHANGED <<unchoke_received, buffer, unchoked, sResult>>
          /\ wait_seen' = (sPc' = "wait_bitfield" /\ wait_seen)
          /\ wait_reads' = (sPc' = sPc /\ wait_reads)
       \/ /\ sPc' = "finally"
          /\ sResult' = FailResult
          /\ UNCHANGED <<unchoke_received, buffer, unchoked, timeout_counter>>
          /\ wait_seen' = (sPc' = "wait_bitfield" /\ wait_seen)
          /\ wait_reads' = (sPc' = sPc /\ wait_reads)
       \/ /\ \E c \in Chunks(MaxBuffer - Len(buffer)) :
                /\ unchoke_received' = (unchoke_received \/ HasUnchoke(c))
                /\ LET scan == ScanBitfield(buffer \o c)
                   IN /\ buffer' = scan.rest
                      /\ unchoked' = scan.unchoke
                      /\ sPc' = IF scan.unchoke THEN "request"
                                ELSE IF scan.bitfield THEN "send_interested"
                                     ELSE "wait_bitfield"
                      /\ wait_seen' = (/\ sPc' = "wait_bitfield"
                                       /\ wait_seen \/ SeenIn(buffer \o c, scan.rest))
                      /\ wait_reads' = (sPc' = sPc /\ ~wait_reads)
          /\ UNCHANGED <<timeout_counter, sResult>>
    /\ UNCHANGED <<torrentVars, libVars, schedVars, is_choking_us, piece_index,
                   piece_len, peer_hs, sockOpen, hs_sent, response,
                   we_are_interested, piece_data, offset, sent, chokedMid>>

\* a faulty session: interested is sent again while the unchoke is awaited
SSendInterestedAgain ==
    /\ sPc \in {"send_interested", "wait_unchoke"}
    /\ Len(sent) < 2
    /\ sent' = Append(sent, Message(MSG_INTERESTED, 0, 0, 0))
    /\ sPc' = "wait_unchoke"
    /\ UNCHANGED <<torrentVars, libVars, schedVars, unchoke_received, wait_seen,
                   wait_reads,
                   is_choking_us, piece_index, piece_len, peer_hs, sockOpen,
                   hs_sent, response, buffer, unchoked, timeout_counter,
                   we_are_interested, piece_data, offset, sResult, chokedMid>>

\* "if not unchoked: sock.sendall(create_message(MSG_INTERESTED))";
\* download_piece_from_peer sets we_are_interested and enters its second wait
\* only "while timeout_counter < 3", else it returns None
SSendInterested ==
    /\ sPc = "send_interested"
    /\ sent' = Append(sent, Message(MSG_INTERESTED, 0, 0, 0))
    /\ IF program = "optimized"
       THEN /\ we_are_interested' = TRUE
            /\ IF timeout_counter < WAIT_TIMEOUTS
               THEN sPc' = "wait_unchoke" /\ UNCHANGED sResult
               ELSE sPc' = "finally" /\ sResult' = "None"
       ELSE /\ sPc' = "wait_unchoke"
            /\ UNCHANGED <<we_are_interested, sResult>>
    /\ UNCHANGED <<torrentVars, libVars, schedVars, unchoke_received, wait_seen,
                   wait_reads,
                   is_choking_us, piece_index,
                   piece_len, peer_hs, sockOpen, hs_sent, response, buffer,
                   unchoked, timeout_counter, piece_data, offset, chokedMid>>

\* the wait for unchoke after interested.  download_piece ("while not
\* unchoked") lets a timeout and a closed connection raise;
\* download_piece_from_peer counts the timeouts, leaves the loop when the
\* connection is closed, and returns None if it is still choked
SWaitUnchoke ==
    /\ sPc = "wait_unchoke"
    /\ \/ /\ IF program = "optimized"
             THEN /\ timeout_counter' = timeout_counter + 1
                  /\ IF timeout_counter + 1 < WAIT_TIMEOUTS
                     THEN UNCHANGED <<sPc, sResult>>
                     ELSE sPc' = "finally" /\ sResult' = "None"
             ELSE /\ sPc' = "finally"
                  /\ sResult' = "raise"
                  /\ UNCHANGED timeout_counter
          /\ UNCHANGED <<unchoke_received, buffer, unchoked, is_choking_us>>
          /\ wait_seen' = FALSE
          /\ wait_reads' = (sPc' = sPc /\ wait_reads)
       \/ /\ sPc' = "finally"
          /\ sResult' = FailResult
          /\ UNCHANGED <<unchoke_received, buffer, unchoked, is_choking_us,
                         timeout_counter>>
          /\ wait_seen' = FALSE
          /\ wait_reads' = (sPc' = sPc /\ wait_reads)
       \/ /\ \E c \in Chunks(MaxBuffer - Len(buffer)) :
                /\ unchoke_received' = (unchoke_received \/ HasUnchoke(c))
                /\ LET scan == ScanUnchoke(buffer \o c)
                   IN /\ buffer' = scan.rest
                      /\ unchoked' = scan.unchoke
                      /\ is_choking_us' =
                            IF scan.unchoke /\ program = "optimized"
                            THEN [is_choking_us EXCEPT ![1] = FALSE]
                            ELSE is_choking_us
                      /\ sPc' = IF scan.unchoke THEN "request" ELSE "wait_unchoke"
                      /\ wait_seen' = FALSE
                      /\ wait_reads' = (sPc' = sPc /\ ~wait_reads)
          /\ UNCHANGED <<timeout_counter, sResult>>
    /\ UNCHANGED <<torrentVars, libVars, schedVars, piece_index, piece_len, peer_hs,
                   sockOpen, hs_sent, response, we_are_interested, piece_data,
                   offset, sent, chokedMid>>

\* "while offset < piece_len": sock.sendall(create_request(piece_index,
\* offset, block_size))
SRequest ==
    /\ sPc = "request"
    /\ sent' = Append(sent, Message(MSG_REQUEST, piece_index, offset,
                                    BlockSize(piece_len, offset)))
    /\ sPc' = "recv_block"
    /\ UNCHANGED <<torrentVars, libVars, schedVars, unchoke_received, wait_seen,
                   wait_reads,
                   is_choking_us, piece_index,
                   piece_len, peer_hs, sockOpen, hs_sent, response, buffer,
                   unchoked, timeout_counter, we_are_interested, piece_data,
                   offset, sResult, chokedMid>>

\* a faulty test: a block at the offset is taken, of whatever piece
MatchesBegin(m) ==
    m.id = MSG_PIECE /\ m.begin = offset

\* a faulty test: any block of the piece is taken
MatchesIndex(m) ==
    m.id = MSG_PIECE /\ m.index = piece_index

\* the piece message m satisfies the request: piece_msg['index'] ==
\* piece_index and piece_msg['begin'] == offset
MatchesRequest(m) ==
    m.id = MSG_PIECE /\ m.index = piece_index /\ m.begin = offset

\* "while not received": a recv that times out or finds the connection
\* closed raises; else one message of the buffer is parsed, and a matching
\* piece message gives the block: the next block is asked for, or the piece
\* is returned
SRecvBlock ==
    /\ sPc = "recv_block"
    /\ \/ /\ sPc' = "finally"
          /\ sResult' = FailResult
          /\ UNCHANGED <<unchoke_received, buffer, piece_data, offset,
                         chokedMid>>
       \/ /\ \E c \in Chunks(MaxBuffer - Len(buffer)) :
                /\ buffer \o c # <<>>
                /\ unchoke_received' = (unchoke_received \/ HasUnchoke(c))
                /\ LET m == Head(buffer \o c)
                   IN /\ buffer' = Tail(buffer \o c)
                      /\ chokedMid' = IF m.id = MSG_CHOKE /\ chokedMid = -1
                                      THEN Len(sent) ELSE chokedMid
                      /\ IF MatchesRequest(m)
                         THEN /\ piece_data' = Append(piece_data, m.block)
                              /\ offset' = offset + BlockSize(piece_len, offset)
                              /\ IF offset + BlockSize(piece_len, offset) < piece_len
                                 THEN sPc' = "request" /\ UNCHANGED sResult
                                 ELSE sPc' = "finally" /\ sResult' = "bytes"
                         ELSE UNCHANGED <<piece_data, offset, sPc, sResult>>
    /\ UNCHANGED <<torrentVars, libVars, schedVars, is_choking_us, piece_index,
                   piece_len, peer_hs, sockOpen, hs_sent, response, unchoked,
                   timeout_counter, we_are_interested, sent, wait_seen,
                   wait_reads>>

\* the finally clause, and the return or the exception
SFinally ==
    /\ sPc = "finally"
    /\ sockOpen' = (sockOpen /\ ~ClosedOnExit(sResult))
    /\ sPc' = "returned"
    /\ UNCHANGED <<torrentVars, libVars, schedVars, unchoke_received, wait_seen,
                   wait_reads,
                   is_choking_us, piece_index,
                   piece_len, peer_hs, hs_sent, response, buffer, unchoked,
                   timeout_counter, we_are_interested, piece_data, offset,
                   sent, sResult, chokedMid>>

(***************************************************************************)
(* peer_protocol.py: the framing of the messages, byte by byte.            *)
(***************************************************************************)
\* struct.pack(">I", n)
PackU32(n) ==
    <<(n \div 16777216) % 256, (n \div 65536) % 256, (n \div 256) % 256,
      n % 256>>

\* struct.unpack(">I", b)[0]
UnpackU32(b) == b[1] * 16777216 + b[2] * 65536 + b[3] * 256 + b[4]

\* create_message(message_id, payload)
CreateMessage(message_id, payload) ==
    PackU32(1 + Len(payload)) \o <<message_id>> \o payload

\* a faulty parse_message: it does not wait for the whole message
ParseMessageEager(data) ==
    IF Len(data) < 5 THEN [id |-> -1, payload |-> <<>>, consumed |-> 0]
    ELSE LET length == UnpackU32(SubSeq(data, 1, 4))
             last == IF Len(data) < 4 + length THEN Len(data) ELSE 4 + length
         IN [id |-> data[5], payload |-> SubSeq(data, 6, last),
             consumed |-> last]

\* parse_message(data): (message_id, payload, consumed), the id None being
\* -1 and the payload None being <<>>
ParseMessage(data) ==
    IF Len(data) < 4 THEN [id |-> -1, payload |-> <<>>, consumed |-> 0]
    ELSE LET length == UnpackU32(SubSeq(data, 1, 4))
         IN IF length = 0
            THEN [id |-> -1, payload |-> <<>>, consumed |-> 4]
            ELSE IF Len(data) < 4 + length
                 THEN [id |-> -1, payload |-> <<>>, consumed |-> 0]
                 ELSE [id |-> data[5], payload |-> SubSeq(data, 6, 4 + length),
                       consumed |-> 4 + length]

\* a message as the parser gives it
Parsed(id, payload) == [id |-> id, payload |-> payload]

\* the keep-alive, as parsed and on the wire
KeepAlive == Parsed(-1, <<>>)

\* the messages put on the wire: the keep-alive, messages without payload,
\* a have, and a piece message whose payload is all zeros
WireMessages ==
    {KeepAlive, Parsed(MSG_CHOKE, <<>>), Parsed(MSG_UNCHOKE, <<>>),
     Parsed(MSG_HAVE, <<0, 0, 0, 1>>),
     Parsed(MSG_PIECE, <<0, 0, 0, 0, 0, 0, 0, 0, 0>>)}

\* the bytes of one message
WireBytes(m) ==
    IF m = KeepAlive THEN PackU32(0) ELSE CreateMessage(m.id, m.payload)

\* the bytes of a sequence of messages
RECURSIVE Concatenation(_)
Concatenation(ms) ==
    IF ms = <<>> THEN <<>> ELSE WireBytes(Head(ms)) \o Concatenation(Tail(ms))

\* sock.recv: some of the bytes on the wire are added to the buffer
FRecv ==
    /\ stream # <<>>
    /\ \E k \in 1..Len(stream) :
          /\ fbuf' = fbuf \o SubSeq(stream, 1, k)
          /\ stream' = SubSeq(stream, k + 1, Len(stream))
    /\ UNCHANGED <<progVars, bencodeVars, sizeVars, chokeVars, lockVars, original, parsed>>

\* "msg_id, payload, consumed = parse_message(buffer)" with consumed > 0,
\* and "buffer = buffer[consumed:]"
FParse ==
    /\ ParseMessage(fbuf).consumed > 0
    /\ parsed' = Append(parsed, Parsed(ParseMessage(fbuf).id,
                                       ParseMessage(fbuf).payload))
    /\ fbuf' = SubSeq(fbuf, ParseMessage(fbuf).consumed + 1, Len(fbuf))
    /\ UNCHANGED <<progVars, bencodeVars, sizeVars, chokeVars, lockVars, original, stream>>

(***************************************************************************)
(* bencode.py: values, encode and decode.  A value is an integer, a byte   *)
(* string, a list, or a dictionary; a dictionary has its keys in the order *)
(* of their insertion (keys[k] is the key of items[k]).  Bytes are ASCII   *)
(* codes.                                                                  *)
(***************************************************************************)
BInt(n) == [t |-> "int", n |-> n, b |-> <<>>, keys |-> <<>>, items |-> <<>>]
BBytes(b) == [t |-> "bytes", n |-> 0, b |-> b, keys |-> <<>>, items |-> <<>>]
BList(items) ==
    [t |-> "list", n |-> 0, b |-> <<>>, keys |-> <<>>, items |-> items]
BDict(keys, items) ==
    [t |-> "dict", n |-> 0, b |-> <<>>, keys |-> keys, items |-> items]

\* str(n).encode('ascii') for n >= 0
RECURSIVE Digits(_)
Digits(n) ==
    IF n < 10 THEN <<48 + n>> ELSE Digits(n \div 10) \o <<48 + (n % 10)>>

\* str(n).encode('ascii')
IntToAscii(n) == IF n < 0 THEN <<45>> \o Digits(0 - n) ELSE Digits(n)

\* a < b for byte strings, as sorted() compares them
RECURSIVE BytesLess(_, _)
BytesLess(a, b) ==
    IF b = <<>> THEN FALSE
    ELSE IF a = <<>> THEN TRUE
         ELSE IF Head(a) # Head(b) THEN Head(a) < Head(b)
              ELSE BytesLess(Tail(a), Tail(b))

\* a faulty sorted(): the keys in the order of their insertion
InsertionOrder(keys) == keys

\* sorted(obj.keys())
RECURSIVE SortedByteKeys(_)
SortedByteKeys(keys) ==
    IF keys = <<>> THEN <<>>
    ELSE LET S == {keys[k] : k \in 1..Len(keys)}
             least == CHOOSE a \in S : \A c \in S : c = a \/ BytesLess(a, c)
         IN <<least>> \o SortedByteKeys(SelectSeq(keys, LAMBDA k : k # least))

\* obj[key]
Lookup(obj, key) ==
    obj.items[CHOOSE k \in 1..Len(obj.keys) : obj.keys[k] = key]

\* encode(obj)
RECURSIVE Encode(_)
RECURSIVE EncodeItems(_)
RECURSIVE EncodeEntries(_, _)
Encode(obj) ==
    CASE obj.t = "int" -> <<105>> \o IntToAscii(obj.n) \o <<101>>
      [] obj.t = "bytes" -> IntToAscii(Len(obj.b)) \o <<58>> \o obj.b
      [] obj.t = "list" -> <<108>> \o EncodeItems(obj.items) \o <<101>>
      [] obj.t = "dict" ->
            <<100>> \o EncodeEntries(obj, SortedByteKeys(obj.keys)) \o <<101>>

\* "for item in obj: result += encode(item)"
EncodeItems(items) ==
    IF items = <<>> THEN <<>>
    ELSE Encode(Head(items)) \o EncodeItems(Tail(items))

\* "for key in sorted(obj.keys()): result += encode(key);
\* result += encode(obj[key])"
EncodeEntries(obj, keys) ==
    IF keys = <<>> THEN <<>>
    ELSE Encode(BBytes(Head(keys))) \o Encode(Lookup(obj, Head(keys)))
         \o EncodeEntries(obj, Tail(keys))

\* a BencodeError
BencodeError == [ok |-> FALSE, value |-> BInt(0), next |-> 0]

\* data.find(c, i): the first position from i on that holds c, or 0
RECURSIVE Find(_, _, _)
Find(data, c, i) ==
    IF i > Len(data) THEN 0
    ELSE IF data[i] = c THEN i ELSE Find(data, c, i + 1)

\* all(ord("0") <= ch <= ord("9") for ch in bs)
AllDigits(bs) == \A k \in 1..Len(bs) : bs[k] >= 48 /\ bs[k] <= 57

\* int(bs) for a string of digits
RECURSIVE AsciiToNat(_)
AsciiToNat(bs) ==
    IF bs = <<>> THEN 0
    ELSE 10 * AsciiToNat(SubSeq(bs, 1, Len(bs) - 1)) + (bs[Len(bs)] - 48)

\* _parse_int accepts int_bytes: not empty, not "-0", no leading zero, no
\* "-" alone or before a zero, and digits after an optional sign
IntAccepted(int_bytes) ==
    /\ int_bytes # <<>>
    /\ int_bytes # <<45, 48>>
    /\ ~(int_bytes[1] = 48 /\ Len(int_bytes) > 1)
    /\ ~(int_bytes[1] = 45 /\ (Len(int_bytes) = 1 \/ int_bytes[2] = 48))
    /\ IF int_bytes[1] \in {43, 45}
       THEN Len(int_bytes) > 1 /\ AllDigits(Tail(int_bytes))
       ELSE AllDigits(int_bytes)

\* a faulty conversion: the sign is dropped
AsciiUnsigned(int_bytes) ==
    IF int_bytes[1] \in {43, 45} THEN AsciiToNat(Tail(int_bytes))
    ELSE AsciiToNat(int_bytes)

\* int(int_bytes.decode("ascii"))
AsciiToInt(int_bytes) ==
    IF int_bytes[1] = 45 THEN 0 - AsciiToNat(Tail(int_bytes))
    ELSE IF int_bytes[1] = 43 THEN AsciiToNat(Tail(int_bytes))
         ELSE AsciiToNat(int_bytes)

\* BencodeDecoder._parse_int with the cursor at i
ParseInt(data, i) ==
    LET end == Find(data, 101, i + 1)
        int_bytes == SubSeq(data, i + 1, end - 1)
    IN IF end = 0 \/ ~IntAccepted(int_bytes) THEN BencodeError
       ELSE [ok |-> TRUE, value |-> BInt(AsciiToInt(int_bytes)),
             next |-> end + 1]

\* BencodeDecoder._parse_bytestring with the cursor at i
ParseBytestring(data, i) ==
    LET colon == Find(data, 58, i)
        len_bytes == SubSeq(data, i, colon - 1)
    IN IF colon = 0 \/ len_bytes = <<>> \/ ~AllDigits(len_bytes)
          \/ (len_bytes[1] = 48 /\ Len(len_bytes) > 1)
          \/ colon + AsciiToNat(len_bytes) > Len(data)
       THEN BencodeError
       ELSE [ok |-> TRUE,
             value |-> BBytes(SubSeq(data, colon + 1,
                                     colon + AsciiToNat(len_bytes))),
             next |-> colon + AsciiToNat(len_bytes) + 1]

\* result[key] = value
DictSet(obj, key, value) ==
    IF \E k \in 1..Len(obj.keys) : obj.keys[k] = key
    THEN BDict(obj.keys,
               [k \in 1..Len(obj.items) |->
                   IF obj.keys[k] = key THEN value ELSE obj.items[k]])
    ELSE BDict(Append(obj.keys, key), Append(obj.items, value))

\* BencodeDecoder._parse_value, _parse_list and _parse_dict with the cursor
\* at i, the list and the dictionary with what they hold so far
RECURSIVE ParseValue(_, _)
RECURSIVE ParseList(_, _, _)
RECURSIVE ParseDict(_, _, _)
ParseValue(data, i) ==
    IF i > Len(data) THEN BencodeError
    ELSE CASE data[i] = 105 -> ParseInt(data, i)
           [] data[i] = 108 -> ParseList(data, i + 1, <<>>)
           [] data[i] = 100 -> ParseDict(data, i + 1, BDict(<<>>, <<>>))
           [] data[i] >= 48 /\ data[i] <= 57 -> ParseBytestring(data, i)
           [] OTHER -> BencodeError

ParseList(data, i, result) ==
    IF i > Len(data) THEN BencodeError
    ELSE IF data[i] = 101
         THEN [ok |-> TRUE, value |-> BList(result), next |-> i + 1]
         ELSE LET item == ParseValue(data, i)
              IN IF ~item.ok THEN BencodeError
                 ELSE ParseList(data, item.next, Append(result, item.value))

ParseDict(data, i, result) ==
    IF i > Len(data) THEN BencodeError
    ELSE IF data[i] = 101
         THEN [ok |-> TRUE, value |-> result, next |-> i + 1]
         ELSE LET key == ParseBytestring(data, i)
              IN IF ~key.ok THEN BencodeError
                 ELSE LET value == ParseValue(data, key.next)
                      IN IF ~value.ok THEN BencodeError
                         ELSE ParseDict(data, value.next,
                                        DictSet(result, key.value.b,
                                                value.value))

\* decode(data): the value, or a BencodeError when the data are no value or
\* bytes are left over
Decode(data) ==
    IF ParseValue(data, 1).ok /\ ParseValue(data, 1).next = Len(data) + 1
    THEN ParseValue(data, 1)
    ELSE BencodeError

\* v == w for two values: dictionaries are equal when they have the same
\* keys with equal values, whatever the order of insertion
RECURSIVE ValueEq(_, _)
ValueEq(v, w) ==
    /\ v.t = w.t
    /\ CASE v.t = "int" -> v.n = w.n
         [] v.t = "bytes" -> v.b = w.b
         [] v.t = "list" ->
               /\ Len(v.items) = Len(w.items)
               /\ \A k \in 1..Len(v.items) : ValueEq(v.items[k], w.items[k])
         [] v.t = "dict" ->
               /\ {v.keys[k] : k \in 1..Len(v.keys)} =
                  {w.keys[k] : k \in 1..Len(w.keys)}
               /\ \A k \in 1..Len(v.keys) :
                     ValueEq(v.items[k], Lookup(w, v.keys[k]))

\* the integers and byte strings of the values: "", "a", "b", "e:1"
BAtoms ==
    {BInt(n) : n \in {0, -7, 42, 100}}
    \cup {BBytes(b) : b \in {<<>>, <<97>>, <<98>>, <<101, 58, 49>>}}

\* what lists and dictionaries hold: atoms, and small lists and dictionaries
BMembers ==
    BAtoms \cup {BList(<<>>), BList(<<BInt(42)>>), BDict(<<>>, <<>>),
                 BDict(<<<<98>>, <<97>>>>, <<BInt(0), BBytes(<<97>>)>>)}

\* the keys of the dictionaries
BKeys == {<<>>, <<97>>, <<98>>, <<97, 98>>}

\* the sequences of n distinct keys
KeyOrders(n) ==
    {ks \in [1..n -> BKeys] : \A j, k \in 1..n : ks[j] = ks[k] => j = k}

\* the values: atoms, and lists and dictionaries of up to MaxItems members,
\* the keys of a dictionary in any order
BValues ==
    BMembers
    \cup UNION {{BList(items) : items \in [1..n -> BMembers]} :
                   n \in 0..MaxItems}
    \cup UNION {{BDict(ks, items) :
                    ks \in KeyOrders(n), items \in [1..n -> BAtoms]} :
                   n \in 0..MaxItems}

\* the same dictionary with its keys given in another order
Reorderings(v) ==
    IF v.t # "dict" THEN {v}
    ELSE {BDict([k \in 1..Len(v.keys) |-> v.keys[p[k]]],
                [k \in 1..Len(v.keys) |-> v.items[p[k]]]) :
             p \in {q \in [1..Len(v.keys) -> 1..Len(v.keys)] :
                       \A j, k \in 1..Len(v.keys) : q[j] = q[k] => j = k}}

\* bencoded = encode(value)
BEncode ==
    /\ bpc = "value"
    /\ benc' = Encode(bval)
    /\ bpc' = "encoded"
    /\ UNCHANGED <<progVars, framingVars, sizeVars, chokeVars, lockVars, bval, bdec, benc2,
                   breordered>>

\* decoded = decode(bencoded)
BDecode ==
    /\ bpc = "encoded"
    /\ bdec' = Decode(benc)
    /\ bpc' = "decoded"
    /\ UNCHANGED <<progVars, framingVars, sizeVars, chokeVars, lockVars, bval, benc, benc2,
                   breordered>>

\* encoded = encode(decoded), for what decode gave
BReencode ==
    /\ bpc = "decoded"
    /\ bdec.ok
    /\ benc2' = Encode(bdec.value)
    /\ bpc' = "reencoded"
    /\ UNCHANGED <<progVars, framingVars, sizeVars, chokeVars, lockVars, bval, benc, bdec,
                   breordered>>

\* encode of the same value, its keys given in another order
BReorder ==
    /\ bpc = "reencoded"
    /\ \E w \in Reorderings(bval) : breordered' = Encode(w)
    /\ bpc' = "reordered"
    /\ UNCHANGED <<progVars, framingVars, sizeVars, chokeVars, lockVars, bval, benc, bdec, benc2>>

(***************************************************************************)
(* The number of pieces and the length of a piece.                         *)
(***************************************************************************)
\* max_pieces is None
NoMaxPieces == -1

\* __init__ / download_file: (total_length + piece_length - 1) //
\* piece_length, and "if max_pieces: num_pieces = min(num_pieces,
\* max_pieces)"
NumPieces(total, plen, maxp) ==
    LET all == (total + plen - 1) \div plen
    IN IF maxp # NoMaxPieces /\ maxp # 0 /\ maxp < all THEN maxp ELSE all

\* "if piece_index == self.num_pieces - 1 and self.max_pieces is None:
\* piece_len = self.total_length - (piece_index * self.piece_length)
\* else: piece_len = self.piece_length"
PieceLen(index) ==
    IF index = num_pieces - 1 /\ max_pieces = NoMaxPieces
    THEN total_length - (index * piece_length)
    ELSE piece_length

\* the first lines of download_piece_from_peer, and of the piece loop of
\* download_file before it calls download_piece: the length of piece i
SPieceLen(i) ==
    /\ sPc = "idle"
    /\ total_length > 0
    /\ i \in Pieces
    /\ piece_index' = i
    /\ piece_len' = PieceLen(i)
    /\ sPc' = "start"
    /\ UNCHANGED <<torrentVars, libVars, schedVars, is_choking_us, peer_hs,
                   sockOpen, hs_sent, response, buffer, unchoked,
                   timeout_counter, we_are_interested, piece_data, offset,
                   sent, sResult, chokedMid, unchoke_received, wait_seen,
                   wait_reads>>

(***************************************************************************)
(* The worker threads of download_pieces and PeerManager.lock: what a      *)
(* worker writes to the PeerStats of its peer in download_piece_from_peer  *)
(* and through PeerManager.update_download.  "self.downloaded +=" is a     *)
(* load and a store, between which another thread can run.                 *)
(***************************************************************************)

Workers == 1..LockWorkers

Write(field, t) == [field |-> field, locked |-> lock_holder = t]

\* download_piece_from_peer: "peer_stats.is_choking_us = False", in either
\* wait loop
WUnchoked(t) ==
    /\ wpc[t] \in {"start", "interested"}
    /\ is_choking_us' = [is_choking_us EXCEPT ![wpeer[t]] = FALSE]
    /\ writes' = writes \cup {Write("is_choking_us", t)}
    /\ wpc' = [wpc EXCEPT ![t] = "block"]
    /\ UNCHANGED <<torrentVars, schedVars, sessVars, framingVars, bencodeVars,
                   sizeVars, chokeVars, lock_holder, wpeer, downloaded,
                   total_downloaded, loaded>>

\* download_piece_from_peer: "peer_stats.we_are_interested = True", a flag
\* the program never reads
WSendInterested(t) ==
    /\ wpc[t] = "start"
    /\ writes' = writes \cup {Write("we_are_interested", t)}
    /\ wpc' = [wpc EXCEPT ![t] = "interested"]
    /\ UNCHANGED <<torrentVars, schedVars, sessVars, framingVars, bencodeVars,
                   sizeVars, chokeVars, is_choking_us, lock_holder, wpeer,
                   downloaded, total_downloaded, loaded>>

\* update_download -> PeerStats.update_downloaded: the load of
\* "self.downloaded += bytes_count"
WLoadDownloaded(t) ==
    /\ wpc[t] = "block"
    /\ loaded' = [loaded EXCEPT ![t] = downloaded[wpeer[t]]]
    /\ wpc' = [wpc EXCEPT ![t] = "store"]
    /\ UNCHANGED <<torrentVars, schedVars, sessVars, framingVars, bencodeVars,
                   sizeVars, chokeVars, is_choking_us, lock_holder, wpeer,
                   downloaded, total_downloaded, writes>>

\* PeerStats.update_downloaded: the store of "self.downloaded +=", then
\* download_rate and last_download_time
WStoreDownloaded(t) ==
    /\ wpc[t] = "store"
    /\ downloaded' = [downloaded EXCEPT ![wpeer[t]] = loaded[t] + 1]
    /\ writes' = writes \cup {Write("downloaded", t), Write("download_rate", t),
                              Write("last_download_time", t)}
    /\ wpc' = [wpc EXCEPT ![t] = "acquire"]
    /\ UNCHANGED <<torrentVars, schedVars, sessVars, framingVars, bencodeVars,
                   sizeVars, chokeVars, is_choking_us, lock_holder, wpeer,
                   total_downloaded, loaded>>

\* update_download: "with self.lock:"
WAcquire(t) ==
    /\ wpc[t] = "acquire"
    /\ lock_holder = 0
    /\ lock_holder' = t
    /\ wpc' = [wpc EXCEPT ![t] = "total"]
    /\ UNCHANGED <<torrentVars, schedVars, sessVars, framingVars, bencodeVars,
                   sizeVars, chokeVars, is_choking_us, wpeer, downloaded,
                   total_downloaded, loaded, writes>>

\* update_download: "self.total_downloaded += bytes_count" and the end of
\* the with block
WTotalDownloaded(t) ==
    /\ wpc[t] = "total"
    /\ lock_holder = t
    /\ total_downloaded' = total_downloaded + 1
    /\ writes' = writes \cup {Write("total_downloaded", t)}
    /\ lock_holder' = 0
    /\ wpc' = [wpc EXCEPT ![t] = "done"]
    /\ UNCHANGED <<torrentVars, schedVars, sessVars, framingVars, bencodeVars,
                   sizeVars, chokeVars, is_choking_us, wpeer, downloaded,
                   loaded>>

(***************************************************************************)
(* The specifications.                                                     *)
(***************************************************************************)
NextOptimized ==
    \/ GetPeers
    \/ SelectPeers
    \/ Submit
    \/ \E i \in Pieces : TaskStart(i)
    \/ \E i \in Pieces : SessionOpen(i)
    \/ \E i \in Pieces : SessionEnd(i)
    \/ \E i \in Pieces : Collect(i)
    \/ DownloadPiecesReturn
    \/ SaveAndFinish
    \/ Interrupt
    \/ ShutdownJoined

NextBasic ==
    \/ BGetPeers
    \/ BPieceStart
    \/ BSessionOpen
    \/ BSessionEnd
    \/ BPieceFailed
    \/ BWrite

\* the two downloaders, for every torrent and tracker reply within the bounds
Init ==
    \E prog \in {"optimized", "basic"}, n \in 1..MaxPieces,
       reply \in TrackerReplies :
        InitWith(prog, n, reply)

Next == NextOptimized \/ NextBasic

Spec == Init /\ [][Next]_vars

\* the worker pool at work: more pieces than workers, one peer
InitPool == InitWith("optimized", PoolPieces, <<1>>)

NextPool ==
    \/ GetPeers
    \/ SelectPeers
    \/ Submit
    \/ \E i \in Pieces : TaskStart(i)
    \/ \E i \in Pieces : SessionEnd(i)
    \/ Interrupt
    \/ ShutdownJoined

SpecPool == InitPool /\ [][NextPool]_vars

\* download_pieces when it starts to collect: every piece was submitted with
\* the one peer there is and its worker has finished, with the pieces of ok
\* verified and stored
InitCollect ==
    \E ok \in SUBSET (0..(PoolPieces - 1)), choking \in BOOLEAN,
       rate \in 0..MaxRate :
        /\ ok # {} => ~choking
        /\ program = "optimized"
        /\ num_pieces = PoolPieces
        /\ pieces_hashes = HashesUpTo(PoolPieces)
        /\ tracker_peers = <<1>>
        /\ peer_kind = <<>>
        /\ peers_list = <<1>>
        /\ is_choking_us = <<choking>>
        /\ mainPc = "collect"
        /\ best_peers = <<1>>
        /\ piece_idx = PoolPieces
        /\ fstate = [i \in 0..(PoolPieces - 1) |-> "finished"]
        /\ fresult = [i \in 0..(PoolPieces - 1) |-> i \in ok]
        /\ fpeer = [i \in 0..(PoolPieces - 1) |-> 1]
        /\ att = [i \in 0..(PoolPieces - 1) |-> 1]
        /\ tried = [i \in 0..(PoolPieces - 1) |-> {1}]
        /\ sock = [i \in 0..(PoolPieces - 1) |-> FALSE]
        /\ yielded = {}
        /\ completed = 0
        /\ pieces_data = [i \in ok |-> Content(i)]
        /\ pieces_downloaded = ok
        /\ peer_idx = 0
        /\ bsock = FALSE
        /\ downloaded_pieces = <<>>
        /\ file_exists = FALSE
        /\ file_chunks = <<>>
        /\ outcome = "none"
        /\ pendingAtCancel = {}
        /\ SessionIdle
        /\ FramingIdle
        /\ BencodeIdle
        /\ SizeIdle
        /\ LockIdle
        /\ is_interested_in_us = <<FALSE>>
        /\ is_choked_by_us = <<TRUE>>
        /\ download_rate = <<rate>>
        /\ current_time = 0
        /\ last_optimistic_unchoke = 0
        /\ max_unchoked_peers = UNCHOKED_PEERS
        /\ unchoked_peers = <<>>
        /\ recalculated = FALSE
        /\ steady = FALSE
        /\ recalc_calls = 0

NextCollect ==
    \/ \E i \in Pieces : Collect(i)
    \/ DownloadPiecesReturn
    \/ SaveAndFinish

SpecCollect == InitCollect /\ [][NextCollect]_vars

\* a torrent whose trackers returned one peer, or one peer more than
\* download_pieces assigns pieces over
InitAssign ==
    \E n \in 1..MaxPieces, m \in {1, MAX_PEER_CONNECTIONS + 1} :
        InitWith("optimized", n, [k \in 1..m |-> k])

SpecAssign == InitAssign /\ [][NextOptimized]_vars

\* either downloader with two admitted peers, each of which returns the
\* bytes of the pieces or bytes of another digest
InitTwoPeers ==
    \E prog \in {"optimized", "basic"}, n \in 1..MaxPieces,
       kinds \in [1..2 -> {"good", "bad"}] :
        /\ InitTorrent(prog, n, <<1, 2>>, <<>>, "run")
        /\ peer_kind = kinds
        /\ is_choking_us = <<>>
        /\ SessionIdle
        /\ FramingIdle
        /\ BencodeIdle
        /\ SizeIdle
        /\ LockIdle
        /\ ManagerInit(prog)

\* the downloader left to run: no KeyboardInterrupt
NextTwoPeers ==
    \/ GetPeers
    \/ SelectPeers
    \/ Submit
    \/ \E i \in Pieces : TaskStart(i)
    \/ \E i \in Pieces : SessionOpen(i)
    \/ \E i \in Pieces : SessionEnd(i)
    \/ \E i \in Pieces : Collect(i)
    \/ DownloadPiecesReturn
    \/ SaveAndFinish
    \/ BGetPeers
    \/ BPieceStart
    \/ BSessionOpen
    \/ BSessionEnd
    \/ BPieceFailed
    \/ BWrite

\* the main thread and the workers keep running, and every session returns
SpecTwoPeers ==
    InitTwoPeers /\ [][NextTwoPeers]_vars /\ WF_vars(NextTwoPeers)

\* a whole run that reaches a recalculation: two peers, each serving right
\* or wrong bytes, and as many pieces as download_pieces collects before it
\* calls recalculate_choking
InitRecalculate ==
    \E kinds \in [1..2 -> {"good", "bad"}] :
        /\ InitTorrent("optimized", RECALCULATE_EVERY, <<1, 2>>, <<>>, "run")
        /\ peer_kind = kinds
        /\ is_choking_us = <<>>
        /\ SessionIdle
        /\ FramingIdle
        /\ BencodeIdle
        /\ SizeIdle
        /\ LockIdle
        /\ ManagerInit("optimized")

\* run() from the tracker request to the saved file, not interrupted
NextRecalculate ==
    \/ GetPeers
    \/ SelectPeers
    \/ Submit
    \/ \E i \in Pieces : TaskStart(i)
    \/ \E i \in Pieces : SessionOpen(i)
    \/ \E i \in Pieces : SessionEnd(i)
    \/ \E i \in Pieces : Collect(i)
    \/ DownloadPiecesReturn
    \/ SaveAndFinish

SpecRecalculate == InitRecalculate /\ [][NextRecalculate]_vars

\* one session with one peer, for either downloader: a piece of one block or
\* of two, and every handshake of PeerHandshakes
InitSession ==
    /\ \/ InitScheduler("optimized", 1, <<1>>, <<1>>, "download_pieces")
       \/ InitScheduler("basic", 1, <<1>>, <<1>>, "peer_loop")
    /\ piece_index = 0
    /\ piece_len \in {BLOCK_SIZE, BLOCK_SIZE + 1}
    /\ peer_hs \in PeerHandshakes
    /\ sPc = "start"
    /\ sockOpen = FALSE
    /\ hs_sent = FALSE
    /\ response = <<>>
    /\ buffer = <<>>
    /\ unchoked = FALSE
    /\ timeout_counter = 0
    /\ we_are_interested = FALSE
    /\ piece_data = <<>>
    /\ offset = 0
    /\ sent = <<>>
    /\ sResult = "none"
    /\ chokedMid = -1
    /\ unchoke_received = FALSE
    /\ wait_seen = FALSE
    /\ wait_reads = FALSE
    /\ LibIdle

NextSession ==
    \/ SOpen
    \/ SConnect
    \/ SRecvHandshake
    \/ SWaitBitfieldOptimized
    \/ SWaitBitfieldBasic
    \/ SSendInterested
    \/ SWaitUnchoke
    \/ SRequest
    \/ SRecvBlock
    \/ SFinally

SpecSession == InitSession /\ [][NextSession]_vars

\* a stream of up to MaxMessages messages, received in chunks of any size
InitFraming ==
    /\ InitScheduler("optimized", 1, <<1>>, <<1>>, "download_pieces")
    /\ SessionIdle
    /\ original \in UNION {[1..n -> WireMessages] : n \in 0..MaxMessages}
    /\ stream = Concatenation(original)
    /\ fbuf = <<>>
    /\ parsed = <<>>
    /\ BencodeIdle
    /\ SizeIdle
    /\ ChokeIdle
    /\ LockIdle

NextFraming == FRecv \/ FParse

SpecFraming == InitFraming /\ [][NextFraming]_vars

\* encode and decode applied to every value of BValues
InitBencode ==
    /\ InitScheduler("optimized", 1, <<1>>, <<1>>, "download_pieces")
    /\ SessionIdle
    /\ FramingIdle
    /\ bval \in BValues
    /\ benc = <<>>
    /\ bdec = BencodeError
    /\ benc2 = <<>>
    /\ breordered = <<>>
    /\ bpc = "value"
    /\ SizeIdle
    /\ ChokeIdle
    /\ LockIdle

NextBencode == BEncode \/ BDecode \/ BReencode \/ BReorder

SpecBencode == InitBencode /\ [][NextBencode]_vars

\* torrents of up to MaxTotalLength bytes in pieces of any length, with and
\* without max_pieces, for either downloader
InitSize ==
    /\ total_length \in 1..MaxTotalLength
    /\ piece_length \in 1..MaxTotalLength
    /\ max_pieces \in {NoMaxPieces} \cup 1..(MaxTotalLength + 1)
    /\ \E prog \in {"optimized", "basic"} :
          InitScheduler(prog, NumPieces(total_length, piece_length, max_pieces),
                        <<1>>, <<1>>,
                        IF prog = "optimized" THEN "download_pieces"
                        ELSE "peer_loop")
    /\ SessionIdle
    /\ FramingIdle
    /\ BencodeIdle
    /\ ChokeIdle
    /\ LockIdle

NextSize == \E i \in Pieces : SPieceLen(i)

SpecSize == InitSize /\ [][NextSize]_vars

\* a torrent whose tracker returned more peers than the first three of the
\* list: every piece is submitted and retried by download_and_verify_piece
InitRetry ==
    \E n \in 1..MaxPieces :
        InitWith("optimized", n, [k \in 1..RetryPeers |-> k])

SpecRetry == InitRetry /\ [][NextOptimized]_vars

\* a registry of ChokePeers peers, as PeerManager.__init__ and add_peer leave
\* it, with the rates update_download has measured
InitChoke ==
    /\ InitScheduler("optimized", 1, [k \in 1..ChokePeers |-> k],
                     [k \in 1..ChokePeers |-> k], "collect")
    /\ SessionIdle
    /\ FramingIdle
    /\ BencodeIdle
    /\ SizeIdle
    /\ LockIdle
    /\ is_interested_in_us = [p \in 1..ChokePeers |-> FALSE]
    /\ is_choked_by_us = [p \in 1..ChokePeers |-> TRUE]
    /\ download_rate \in [1..ChokePeers -> 0..MaxRate]
    /\ current_time = 0
    /\ last_optimistic_unchoke = 0
    /\ max_unchoked_peers \in 1..MaxUnchoked
    /\ unchoked_peers = <<>>
    /\ recalculated = FALSE
    /\ steady = FALSE
    /\ recalc_calls = 0

NextChoke ==
    \/ \E p \in Registered, b \in BOOLEAN : PeerInterested(p, b)
    \/ \E p \in Registered, b \in BOOLEAN : PeerChoking(p, b)
    \/ Advance
    \/ RecalculateChoking

SpecChoke == InitChoke /\ [][NextChoke]_vars

\* one selection: a registry whose flags were written and whose rates were
\* measured before recalculate_choking is called
InitSelect ==
    /\ InitDownloader("optimized", 1, [k \in 1..ChokePeers |-> k],
                      [k \in 1..ChokePeers |-> k], "collect")
    /\ SessionIdle
    /\ FramingIdle
    /\ BencodeIdle
    /\ SizeIdle
    /\ LockIdle
    /\ is_choking_us \in [1..ChokePeers -> BOOLEAN]
    /\ is_interested_in_us \in [1..ChokePeers -> BOOLEAN]
    /\ is_choked_by_us = [p \in 1..ChokePeers |-> TRUE]
    /\ download_rate \in [1..ChokePeers -> 0..MaxRate]
    /\ current_time = 0
    /\ last_optimistic_unchoke = 0
    /\ max_unchoked_peers \in 1..MaxUnchoked
    /\ unchoked_peers = <<>>
    /\ recalculated = FALSE
    /\ steady = FALSE
    /\ recalc_calls = 0

NextSelect == Advance \/ RecalculateChoking

SpecSelect == InitSelect /\ [][NextSelect]_vars

\* the registry from its construction on, or with the flags and rates of a
\* run; add_peer is called for registered endpoints and for one that is not
InitRegistry ==
    \/ \E reply \in TrackerReplies : InitWith("optimized", 1, reply)
    \/ /\ InitDownloader("optimized", 1, [k \in 1..LockPeers |-> k],
                         [k \in 1..LockPeers |-> k], "collect")
       /\ SessionIdle
       /\ FramingIdle
       /\ BencodeIdle
       /\ SizeIdle
       /\ LockIdle
       /\ is_choking_us \in [1..LockPeers -> BOOLEAN]
       /\ is_interested_in_us \in [1..LockPeers -> BOOLEAN]
       /\ is_choked_by_us \in [1..LockPeers -> BOOLEAN]
       /\ download_rate \in [1..LockPeers -> 0..MaxRate]
       /\ current_time = 0
       /\ last_optimistic_unchoke = 0
       /\ max_unchoked_peers = UNCHOKED_PEERS
       /\ unchoked_peers = <<>>
       /\ recalculated = FALSE
       /\ steady = FALSE
       /\ recalc_calls = 0

NextRegistry ==
    \/ GetPeers
    \/ \E p \in 1..(LockPeers + 1) : RegistryAddPeer(p)

SpecRegistry == InitRegistry /\ [][NextRegistry]_vars

\* LockWorkers workers, each in a session with one of LockPeers registered
\* peers (download_pieces assigns peers round-robin, so two workers can have
\* the same peer)
InitLock ==
    /\ InitScheduler("optimized", 1, [k \in 1..LockPeers |-> k],
                     [k \in 1..LockPeers |-> k], "collect")
    /\ SessionIdle
    /\ FramingIdle
    /\ BencodeIdle
    /\ SizeIdle
    /\ ChokeIdle
    /\ lock_holder = 0
    /\ wpc = [t \in Workers |-> "start"]
    /\ wpeer \in [Workers -> 1..LockPeers]
    /\ downloaded = [p \in 1..LockPeers |-> 0]
    /\ total_downloaded = 0
    /\ loaded = [t \in Workers |-> 0]
    /\ writes = {}

NextLock ==
    \E t \in Workers :
        \/ WUnchoked(t)
        \/ WSendInterested(t)
        \/ WLoadDownloaded(t)
        \/ WStoreDownloaded(t)
        \/ WAcquire(t)
        \/ WTotalDownloaded(t)

SpecLock == InitLock /\ [][NextLock]_vars

\* one session that keeps running: the thread of the session is scheduled
\* again and again, while what a read returns is the peer's choice
SpecSessionLive == InitSession /\ [][NextSession]_vars /\ WF_vars(NextSession)

(***************************************************************************)
(* The properties.                                                         *)
(***************************************************************************)

\* C1: whatever the peers reply, every piece stored by either downloader
\* (pieces_data, downloaded_pieces) and every piece written to the output
\* file has the SHA-1 digest expected of its index
C1_DigestVerified ==
    /\ \A i \in DOMAIN pieces_data :
          Sha1(pieces_data[i]) = ExpectedHash(pieces_hashes, i)
    /\ \A k \in 1..Len(downloaded_pieces) :
          Sha1(downloaded_pieces[k]) = ExpectedHash(pieces_hashes, k - 1)
    /\ \A k \in 1..Len(file_chunks) :
          Sha1(file_chunks[k].data) =
             ExpectedHash(pieces_hashes, file_chunks[k].idx)

\* a piece was stored after an earlier session for it had not given it, and
\* the output file was written
C1_Witness ==
    /\ file_exists
    /\ file_chunks # <<>>
    /\ \E i \in DOMAIN pieces_data : att[i] > 1

\* C2: OptimizedDownloader.run writes the output file only when every piece
\* index of the torrent has been verified
C2_NoPartialOutput ==
    (program = "optimized" /\ file_exists) => pieces_downloaded = Pieces

\* C3: the run of OptimizedDownloader never ends as a normal completion while
\* some piece is unobtained
C3_NoCompletionWithMissingPiece ==
    (program = "optimized" /\ outcome = "completed") =>
        \A i \in Pieces : i \in DOMAIN pieces_data

\* C4: in download_piece_from_peer a request has been sent only if the peer's
\* is_choking_us flag is false and the session received an unchoke
C4_RequestOnlyWhenUnchoked ==
    (program = "optimized" /\ \E k \in 1..Len(sent) : sent[k].id = MSG_REQUEST)
        => (~is_choking_us[1] /\ unchoke_received)

\* download_piece_from_peer has sent both requests of a piece of two blocks
C4_Witness ==
    /\ program = "optimized"
    /\ Len(sent) = 2
    /\ sent[2].id = MSG_REQUEST
    /\ ~is_choking_us[1]

\* C5: once a choke has been parsed while the blocks of a piece are fetched,
\* no further request is sent and the session does not return the piece
C5_ChokeAbortsPiece ==
    chokedMid # -1 => (Len(sent) = chokedMid /\ sResult # "bytes")

\* C6: when the 68 bytes of the peer's handshake have a length prefix other
\* than 19 or a byte that differs from "BitTorrent protocol", the session
\* fails, nothing is sent after our handshake, and the socket is closed when
\* the session is over
C6_BadHandshakeRejected ==
    (/\ Len(response) = HANDSHAKE_LEN
     /\ \/ response[1] # 19
        \/ \E p \in 1..Len(PSTR) : response[p + 1] # PSTR[p])
        => /\ sent = <<>>
           /\ sPc \in {"finally", "returned"}
           /\ sResult \in {"None", "raise"}
           /\ sPc = "returned" => ~sockOpen

\* the session is over after a handshake whose protocol string differs in its
\* last byte only
C6_Witness ==
    /\ Len(response) = HANDSHAKE_LEN
    /\ response[1] = 19
    /\ response[20] # PSTR[19]
    /\ hs_sent
    /\ sPc = "returned"

\* C7: when the info_hash of the peer's handshake differs from ours, no
\* interested and no request message is sent to that peer
C7_InfoHashChecked ==
    (Len(response) = HANDSHAKE_LEN /\ SubSeq(response, 29, 48) # OurInfoHash)
        => sent = <<>>

\* C8: when no session function is executing (before the session and after
\* its return or exception), the session's socket is not open
C8_SocketClosedOnExit == sPc \in {"start", "returned"} => ~sockOpen

\* the session is over, by an error after the handshake was sent
C8_Witness ==
    /\ sPc = "returned"
    /\ hs_sent
    /\ sResult \in {"None", "raise"}
    /\ ~sockOpen

\* C9: at every moment of download_pieces at most MAX_PEER_CONNECTIONS
\* sessions are open
C9_BoundedSessions ==
    Cardinality({i \in Pieces : sock[i]}) <= MAX_PEER_CONNECTIONS

\* five sessions are open while a further piece waits for a worker
C9_Witness ==
    /\ Cardinality({i \in Pieces : sock[i]}) = MAX_PEER_CONNECTIONS
    /\ \E i \in Pieces : fstate[i] = "pending"

\* C10: after the interrupt no session is opened for a piece that was not in
\* flight when it came
C10_NoSessionAfterInterrupt ==
    \A i \in pendingAtCancel : att[i] = 0 /\ ~sock[i]

\* C11: the messages parsed from the buffer are always the first messages of
\* the stream, in order; once every byte was received and parse_message
\* consumes nothing more, they are exactly the messages of the stream and the
\* buffer is empty; and parse_message(create_message(id, p)) is
\* (id, p, 5 + len(p))
C11_FramingRoundTrip ==
    /\ Len(parsed) <= Len(original)
    /\ parsed = SubSeq(original, 1, Len(parsed))
    /\ (stream = <<>> /\ ParseMessage(fbuf).consumed = 0)
          => (parsed = original /\ fbuf = <<>>)
    /\ \A m \in WireMessages \ {KeepAlive} :
          ParseMessage(CreateMessage(m.id, m.payload)) =
             [id |-> m.id, payload |-> m.payload,
              consumed |-> 5 + Len(m.payload)]

\* a stream with a keep-alive and a piece message was parsed whole
C11_Witness ==
    /\ Len(original) >= 2
    /\ \E k \in 1..Len(original) : original[k] = KeepAlive
    /\ \E k \in 1..Len(original) : original[k].id = MSG_PIECE
    /\ stream = <<>>
    /\ parsed = original

\* C12: for every value of byte strings, integers, lists and dictionaries
\* with byte-string keys, decode(encode(v)) is a value equal to v
C12_DecodeEncode ==
    bpc \in {"decoded", "reencoded", "reordered"}
        => (bdec.ok /\ ValueEq(bdec.value, bval))

\* a dictionary of a negative integer and a byte string, its keys given in
\* descending order, was encoded and decoded
C12_Witness ==
    /\ bpc = "decoded"
    /\ bval.t = "dict"
    /\ Len(bval.keys) = 2
    /\ BytesLess(bval.keys[2], bval.keys[1])
    /\ bval.items[1] = BInt(-7)
    /\ bval.items[2].t = "bytes"
    /\ bdec.ok

\* C13: encode emits the keys of a dictionary in ascending byte order;
\* encode(decode(x)) = x for the encodings x and for d3:bar4:spam3:fooi42ee,
\* which decodes to {bar: "spam", foo: 42}; and a dictionary has the same
\* encoding and the same SHA-1 whatever the order its keys were given in
C13_Canonical ==
    LET x == <<100, 51, 58, 98, 97, 114, 52, 58, 115, 112, 97, 109,
               51, 58, 102, 111, 111, 105, 52, 50, 101, 101>>
    IN /\ bpc \in {"reencoded", "reordered"} => benc2 = benc
       /\ bpc = "reordered" =>
             (breordered = benc /\ Sha1(breordered) = Sha1(benc))
       /\ (bpc \in {"decoded", "reencoded", "reordered"} /\ bval.t = "dict")
             => \A k \in 1..(Len(bdec.value.keys) - 1) :
                   BytesLess(bdec.value.keys[k], bdec.value.keys[k + 1])
       /\ Decode(x).ok
       /\ ValueEq(Decode(x).value,
                  BDict(<<<<102, 111, 111>>, <<98, 97, 114>>>>,
                        <<BInt(42), BBytes(<<115, 112, 97, 109>>)>>))
       /\ Encode(Decode(x).value) = x

\* a dictionary whose keys were given in descending order was encoded,
\* decoded, encoded again, and encoded with its keys in another order
C13_Witness ==
    /\ bpc = "reordered"
    /\ bval.t = "dict"
    /\ Len(bval.keys) = 2
    /\ BytesLess(bval.keys[2], bval.keys[1])
    /\ benc2 = benc

\* C14: the length asked for piece i is piece_length, except for the last
\* piece of the torrent, for which it is the rest of total_length, also when
\* max_pieces is set
C14_PieceLength ==
    LET all == (total_length + piece_length - 1) \div piece_length
    IN (sPc = "start" /\ total_length > 0) =>
          piece_len = IF piece_index = all - 1
                      THEN total_length - (all - 1) * piece_length
                      ELSE piece_length

\* C15: download_and_verify_piece gives up on piece i (returns False) only
\* after a session was attempted with every admitted peer, i.e. with every
\* peer of peers_list.
C15_EveryPeerAttempted ==
    \A i \in Pieces :
        (fstate[i] = "finished" /\ ~fresult[i]) =>
            tried[i] = {peers_list[k] : k \in 1..Len(peers_list)}

\* C16: after a call of recalculate_choking a registered peer is unchoked by
\* us (is_choked_by_us false) exactly if it is in the returned list, also
\* when no peer was a candidate.  The state right after the call is the one
\* where no flag was written since.
C16_ChokedIffNotReturned ==
    (recalculated /\ steady) =>
        \A p \in Registered : ~is_choked_by_us[p] <=> p \in Elems(unchoked_peers)

\* C17: recalculate_choking returns at most max_unchoked_peers peers, each of
\* them interested and not choking us, and among them min(K - 1, number of
\* candidates) candidates whose download_rate no other candidate exceeds.
C17_TopRatesUnchoked ==
    (recalculated /\ steady) =>
        LET K == max_unchoked_peers
            cands == {p \in Registered : Candidate(p)}
            ret == Elems(unchoked_peers)
            m == IF K - 1 < Cardinality(cands) THEN K - 1 ELSE Cardinality(cands)
        IN /\ Len(unchoked_peers) <= K
           /\ Cardinality(ret) = Len(unchoked_peers)
           /\ ret \subseteq cands
           /\ \E T \in SUBSET ret :
                 /\ Cardinality(T) = m
                 /\ \A t \in T, c \in cands \ T :
                       download_rate[t] >= download_rate[c]

\* a call returned max_unchoked_peers of more candidates, of different rates
C17_Witness ==
    /\ recalculated /\ steady
    /\ max_unchoked_peers = 2
    /\ Len(unchoked_peers) = 2
    /\ Cardinality({p \in Registered : Candidate(p)}) > 2
    /\ \E p \in Elems(unchoked_peers), q \in Registered :
          Candidate(q) /\ download_rate[q] < download_rate[p]
    /\ download_rate[1] < download_rate[3]

\* C18: with more than max_unchoked_peers candidates, all of the same
\* download_rate, and no flag written since the previous call, a call of
\* recalculate_choking made at least 30 s after the previous optimistic
\* cycle returns a peer that the previous call did not return.
C18_OptimisticCycleRotates ==
    [][(/\ RecalculateChoking
        /\ recalculated /\ steady
        /\ Len(InterestedPeers) > max_unchoked_peers
        /\ \A p, q \in Elems(InterestedPeers) : download_rate[p] = download_rate[q]
        /\ current_time - last_optimistic_unchoke >= OPTIMISTIC_UNCHOKE_INTERVAL)
       => Elems(unchoked_peers') \ Elems(unchoked_peers) # {}]_vars

\* C19: every write of a worker thread to a counter, rate or flag of a
\* PeerStats (and to the registry's totals) is made while the worker holds
\* PeerManager.lock.
C19_WritesUnderLock == \A w \in writes : w.locked

\* C20: within one session the requests are sent in strictly increasing
\* begin order, a request is sent only when every earlier request has
\* been answered by an accepted piece message (at most one is outstanding),
\* and the k-th block appended to the piece is the block of the k-th request.
C20_RequestsInOrder ==
    LET requests == SelectSeq(sent, LAMBDA m : m.id = MSG_REQUEST)
    IN /\ \A j, k \in 1..Len(requests) :
             j < k => requests[j].begin < requests[k].begin
       /\ Len(requests) - Len(piece_data) \in {0, 1}
       /\ \A k \in 1..Len(piece_data) :
             piece_data[k] = [size |-> requests[k].length, fill |-> 0]

\* a session returned a piece of two blocks
C20_Witness ==
    /\ sResult = "bytes"
    /\ Len(piece_data) = 2
    /\ Len(SelectSeq(sent, LAMBDA m : m.id = MSG_REQUEST)) = 2
    /\ piece_data[1].size # piece_data[2].size

\* C21: to fetch a piece of length L the session sends the requests with
\* begin = 0, 16384, ... and length = min(16384, L - begin), in this order,
\* and it has sent exactly ceil(L / 16384) of them when it returns the piece.
C21_BlocksCoverPiece ==
    LET requests == SelectSeq(sent, LAMBDA m : m.id = MSG_REQUEST)
        count == (piece_len + BLOCK_SIZE - 1) \div BLOCK_SIZE
        begin(k) == (k - 1) * BLOCK_SIZE
        length(k) == IF piece_len - begin(k) < BLOCK_SIZE
                     THEN piece_len - begin(k) ELSE BLOCK_SIZE
    IN /\ Len(requests) <= count
       /\ \A k \in 1..Len(requests) :
             requests[k] = Message(MSG_REQUEST, piece_index, begin(k), length(k))
       /\ sResult = "bytes" => Len(requests) = count

\* a piece of 16385 bytes was returned: its second request is for one byte
C21_Witness ==
    /\ sResult = "bytes"
    /\ piece_len = BLOCK_SIZE + 1
    /\ \E k \in 1..Len(sent) :
          sent[k] = Message(MSG_REQUEST, piece_index, BLOCK_SIZE, 1)

\* C22: the piece data grow only by the block of a piece message whose index
\* is the requested piece and whose begin is the current offset (the block
\* of piece_index at offset, of the bytes of that piece); when the message
\* parsed is anything else the session keeps waiting for that block, with
\* the same offset and no new request, or fails.
C22_OnlyMatchingBlockAccepted ==
    [][sPc = "recv_block" =>
          \/ /\ piece_data' = Append(piece_data,
                                     [size |-> BlockSize(piece_len, offset),
                                      fill |-> 0])
             /\ offset' = offset + BlockSize(piece_len, offset)
          \/ /\ piece_data' = piece_data
             /\ offset' = offset
             /\ sent' = sent
             /\ sPc' \in {"recv_block", "finally"}
             /\ sPc' = "finally" => sResult' = FailResult]_vars

\* the session waits for the second block of a piece, and the message it
\* parses next is a piece message that is not this block
C22_Witness ==
    /\ sPc = "recv_block"
    /\ Len(piece_data) = 1
    /\ buffer # <<>>
    /\ buffer[1].id = MSG_PIECE
    /\ ~MatchesRequest(buffer[1])

\* C23: a session sends interested at most once, and when it sends it, it
\* has not parsed an unchoke (its unchoked is false).
C23_InterestedOnce ==
    /\ [](Len(SelectSeq(sent, LAMBDA m : m.id = MSG_INTERESTED)) <= 1)
    /\ [][(sent' # sent /\ sent'[Len(sent')].id = MSG_INTERESTED) =>
             (~unchoked /\ sent' = Append(sent, Message(MSG_INTERESTED, 0, 0, 0)))]_vars

\* interested was sent, and the unchoke came afterwards
C23_Witness ==
    /\ Len(sent) >= 1
    /\ sent[1].id = MSG_INTERESTED
    /\ unchoked

\* C24: the first wait after the handshake is over as soon as a bitfield, an
\* unchoke, a choke or a have has been parsed, or the read has timed out 3
\* times: a session that is still in this wait has parsed none of these
\* messages and has seen fewer than 3 timeouts.
C24_FirstWaitEnds ==
    sPc = "wait_bitfield" => (~wait_seen /\ timeout_counter < WAIT_TIMEOUTS)

\* C25: a session of download_piece_from_peer whose peer never sends unchoke
\* ends, whatever else the peer sends: in every behaviour of the optimized
\* session an unchoke is received or the session returns.
C25_StillChokingSessionEnds ==
    (program = "optimized") => <>(unchoke_received \/ sPc = "returned")

\* C26: after download_piece_from_peer has sent interested it waits for the
\* unchoke: the step that sends interested takes the session to the wait,
\* where it reads from the connection, and not to its end.
C26_WaitsAfterInterested ==
    [][(program = "optimized" /\ sent' # sent
           /\ sent'[Len(sent')].id = MSG_INTERESTED)
       => sPc' = "wait_unchoke"]_vars

\* C27: before a session blocks on a read, in the waits and in the block
\* phase, every complete message of its buffer has been parsed and removed.
C27_BufferDrainedBeforeRead ==
    /\ sPc \in {"wait_bitfield", "wait_unchoke"} => buffer = <<>>
    /\ sPc = "recv_block" => \A k \in 1..Len(buffer) : ~MatchesRequest(buffer[k])

\* C28: the peer that recalculate_choking adds to fill the K-th slot is not
\* one of the top K - 1 peers by download_rate, and the returned list
\* contains no peer twice.
C28_SlotFilledFromOutsideTop ==
    (recalculated /\ steady) =>
        LET K == max_unchoked_peers
            top == Prefix(SortedByRate(InterestedPeers), K - 1)
        IN /\ \A j, k \in 1..Len(unchoked_peers) :
                 j < k => unchoked_peers[j] # unchoked_peers[k]
           /\ Len(unchoked_peers) = K => unchoked_peers[K] \notin Elems(top)

\* an optimistic cycle filled the second slot, with candidates left over
C28_Witness ==
    /\ recalculated /\ steady
    /\ max_unchoked_peers = 2
    /\ Len(unchoked_peers) = 2
    /\ last_optimistic_unchoke = current_time /\ current_time > 0
    /\ Len(InterestedPeers) = ChokePeers

\* C29: recalculate_choking ranks a candidate before another when its
\* download_rate is higher or, at equal rates, when it was admitted earlier:
\* the top K - 1 of the returned list are in that order and rank before
\* every other candidate, and so does the whole list of a call that was not
\* an optimistic cycle.
C29_TiesByAdmission ==
    /\ [](LET Ranks(p, q) ==
                  \/ download_rate[p] > download_rate[q]
                  \/ /\ download_rate[p] = download_rate[q]
                     /\ ConnectedAt(p) < ConnectedAt(q)
              top == Prefix(unchoked_peers, max_unchoked_peers - 1)
          IN (recalculated /\ steady) =>
                /\ \A j, k \in 1..Len(top) : j < k => Ranks(top[j], top[k])
                /\ \A t \in Elems(top), c \in Elems(InterestedPeers) \ Elems(top) :
                      Ranks(t, c))
    /\ [][LET Ranks(p, q) ==
                  \/ download_rate[p] > download_rate[q]
                  \/ /\ download_rate[p] = download_rate[q]
                     /\ ConnectedAt(p) < ConnectedAt(q)
          IN (/\ RecalculateChoking
              /\ ~(current_time - last_optimistic_unchoke
                      > OPTIMISTIC_UNCHOKE_INTERVAL))
             => /\ \A j, k \in 1..Len(unchoked_peers') :
                      j < k => Ranks(unchoked_peers'[j], unchoked_peers'[k])
                /\ \A t \in Elems(unchoked_peers'),
                      c \in Elems(InterestedPeers) \ Elems(unchoked_peers') :
                      Ranks(t, c)]_vars

\* more candidates of the same rate than slots: the two admitted first were
\* returned and the one admitted last was not
C29_Witness ==
    /\ recalculated /\ steady
    /\ max_unchoked_peers = 2
    /\ Len(InterestedPeers) = ChokePeers
    /\ \A p, q \in Registered : download_rate[p] = download_rate[q]
    /\ unchoked_peers = Prefix(peers_list, 2)

\* C30: a call of recalculate_choking that finds candidates outside the top
\* K - 1 fills the K-th slot with one of them and resets the optimistic
\* timestamp to now when at least 30 s (exactly 30 s included) have passed
\* since the last optimistic cycle, and otherwise returns the first K sorted
\* candidates and leaves the timestamp alone.
C30_OptimisticAfterInterval ==
    [][LET sorted_peers == SortedByRate(InterestedPeers)
           top == Prefix(sorted_peers, max_unchoked_peers - 1)
           other_peers == OtherPeers(InterestedPeers, top)
       IN (RecalculateChoking /\ other_peers # <<>>) =>
             IF current_time - last_optimistic_unchoke >= OPTIMISTIC_UNCHOKE_INTERVAL
             THEN /\ last_optimistic_unchoke' = current_time
                  /\ \E p \in Elems(other_peers) : unchoked_peers' = Append(top, p)
             ELSE /\ last_optimistic_unchoke' = last_optimistic_unchoke
                  /\ unchoked_peers' = Prefix(sorted_peers, max_unchoked_peers)]_vars

\* C31: download_pieces calls recalculate_choking once each time completed,
\* the number of verified pieces collected, reaches a positive multiple of 5,
\* and never when it collects a piece that failed: with completed = n the
\* calls number floor(n / 5), and when download_pieces has returned completed
\* is the number of the verified pieces.
C31_RecalculatedEveryFifth ==
    /\ [](recalc_calls = completed \div 5)
    /\ []((mainPc = "save") => completed = Cardinality(pieces_downloaded))
    /\ [][\A i \in Pieces :
             (Collect(i) /\ ~fresult[i]) =>
                (recalc_calls' = recalc_calls /\ unchoked_peers' = unchoked_peers
                    /\ recalculated' = recalculated)]_vars

\* the fifth verified piece was collected after a failed one, and
\* recalculate_choking was called
C31_Witness ==
    /\ completed = 5
    /\ recalc_calls = 1
    /\ recalculated
    /\ \E i \in yielded : ~fresult[i]

\* C32: the list download_pieces assigns the pieces over is what
\* get_best_peers_for_download returned when that is not empty, and otherwise
\* the admitted peer list, in admission order.
C32_AssignmentList ==
    [][SelectPeers =>
          best_peers' = IF GetBestPeersForDownload(MAX_PEER_CONNECTIONS) # <<>>
                        THEN GetBestPeersForDownload(MAX_PEER_CONNECTIONS)
                        ELSE peers_list]_vars

\* C33: pieces are assigned round-robin over the selected peers by piece
\* index: the first peer the worker of piece i contacts is
\* best_peers[i mod len(best_peers)].
C33_RoundRobinFirstContact ==
    [][\A i \in Pieces :
          TaskStart(i) =>
             peers_list[att'[i]] = best_peers[(i % Len(best_peers)) + 1]]_vars

\* C34: with two admitted peers, one returning the bytes of piece 0 and the
\* other bytes of another digest, in either admission order: no peer is
\* contacted twice for piece 0, the peer with the right bytes is contacted
\* after the other one failed, and piece 0 ends verified with its bytes.
C34_RetriedOnGoodPeer ==
    /\ [][/\ (TaskStart(0) \/ SessionOpen(0)) => peers_list[att'[0]] \notin tried[0]
          /\ (BSessionOpen /\ piece_idx = 0) =>
                \A k \in 1..peer_idx : peers_list[k] # peers_list[peer_idx']]_vars
    /\ []((/\ peer_kind \in {<<"good", "bad">>, <<"bad", "good">>}
           /\ program = "optimized"
           /\ fstate[0] = "finished") =>
             /\ fresult[0]
             /\ 0 \in pieces_downloaded
             /\ pieces_data[0] = Content(0)
             /\ \E p \in tried[0] : peer_kind[p] = "good"
             /\ peer_kind[1] = "bad" => tried[0] = {1, 2})
    /\ []((/\ peer_kind \in {<<"good", "bad">>, <<"bad", "good">>}
           /\ program = "basic"
           /\ mainPc = "done") =>
             /\ outcome = "completed"
             /\ downloaded_pieces[1] = Content(0))
    /\ <>(\/ peer_kind \notin {<<"good", "bad">>, <<"bad", "good">>}
          \/ program = "optimized" /\ fstate[0] = "finished"
          \/ program = "basic" /\ mainPc = "done")

\* the peer admitted first returned bytes of another digest, and piece 0 was
\* verified from the second
C34_Witness ==
    /\ program = "optimized"
    /\ peer_kind = <<"bad", "good">>
    /\ fstate[0] = "finished"
    /\ tried[0] = {1, 2}
    /\ pieces_data[0] = Content(0)

\* C35: get_peers_from_tracker admits each endpoint the trackers returned
\* once, in the order of the first occurrences, and leaves one registry entry
\* per admitted endpoint; add_peer registers its endpoint and keeps every
\* entry there is, that of its own endpoint included.
C35_AdmittedOnce ==
    /\ [][GetPeers =>
             LET FirstAt(x) ==
                     CHOOSE m \in 1..Len(tracker_peers) :
                        /\ tracker_peers[m] = x
                        /\ \A l \in 1..(m - 1) : tracker_peers[l] # x
             IN /\ \A j, k \in 1..Len(peers_list') :
                      j < k => /\ peers_list'[j] # peers_list'[k]
                               /\ FirstAt(peers_list'[j]) < FirstAt(peers_list'[k])
                /\ Elems(peers_list') = Elems(tracker_peers)
                /\ DOMAIN is_choking_us' = Elems(peers_list')
                /\ DOMAIN is_interested_in_us' = Elems(peers_list')
                /\ DOMAIN is_choked_by_us' = Elems(peers_list')
                /\ DOMAIN download_rate' = Elems(peers_list')]_vars
    /\ [][\A p \in 1..(LockPeers + 1) :
             RegistryAddPeer(p) =>
                /\ p \in DOMAIN is_choking_us'
                /\ \A q \in DOMAIN is_choking_us :
                      /\ is_choking_us'[q] = is_choking_us[q]
                      /\ is_interested_in_us'[q] = is_interested_in_us[q]
                      /\ is_choked_by_us'[q] = is_choked_by_us[q]
                      /\ download_rate'[q] = download_rate[q]]_vars

\* the trackers returned an endpoint twice; after get_peers_from_tracker
\* add_peer was called for another endpoint
C35_Witness ==
    /\ tracker_peers = <<1, 2, 1>>
    /\ peers_list = <<1, 2>>
    /\ DOMAIN is_choking_us = {1, 2, 3}
    /\ is_choking_us[3]

\* C36: no update of the download counters is lost: when every worker has
\* made its update_download call, each peer's downloaded is the sum of the
\* byte counts reported for it (one byte per worker of that peer), and
\* total_downloaded is the sum of the peers' counters.
C36_NoUpdateLost ==
    (\A t \in Workers : wpc[t] = "done") =>
        /\ \A p \in DOMAIN downloaded :
              downloaded[p] = Cardinality({t \in Workers : wpeer[t] = p})
        /\ total_downloaded =
              Cardinality({<<p, k>> \in (DOMAIN downloaded) \X (1..LockWorkers) :
                              k <= downloaded[p]})

\* C37: every piece index is handed to the worker pool once and worked on by
\* one worker; a piece stored in pieces_data is never overwritten or removed;
\* and pieces_downloaded is the key set of pieces_data.
C37_VerifiedIsTerminal ==
    /\ [](pieces_downloaded = DOMAIN pieces_data)
    /\ [][/\ \A i \in DOMAIN pieces_data :
                i \in DOMAIN pieces_data' /\ pieces_data'[i] = pieces_data[i]
          /\ \A i \in Pieces :
                /\ (fstate'[i] = "pending" /\ fstate[i] # "pending") =>
                      fstate[i] = "unsubmitted"
                /\ (fstate'[i] = "running" /\ fstate[i] # "running") =>
                      fstate[i] = "pending"
                /\ fstate[i] = "finished" => fstate'[i] = "finished"]_vars

\* both pieces were stored, the second while the first was there
C37_Witness ==
    /\ num_pieces = 2
    /\ pieces_downloaded = {0, 1}
    /\ pieces_data[0] = Content(0)
    /\ pieces_data[1] = Content(1)
    /\ \A i \in Pieces : fstate[i] = "finished"

\* C38: in a run of OptimizedDownloader no peer's is_interested_in_us is ever
\* set, every call of recalculate_choking returns the empty list, and every
\* registered peer stays choked by us.
C38_NobodyUnchoked ==
    /\ \A p \in DOMAIN is_interested_in_us : ~is_interested_in_us[p]
    /\ \A p \in DOMAIN is_choked_by_us : is_choked_by_us[p]
    /\ unchoked_peers = <<>>

\* recalculate_choking was called when the one peer had unchoked us and
\* served five pieces
C38_Witness ==
    /\ recalculated
    /\ recalc_calls = 1
    /\ completed = RECALCULATE_EVERY
    /\ ~is_choking_us[1]
    /\ is_choked_by_us[1]

\* C39: download_pieces selects its peers once, before any piece is submitted
\* or any session has run, when every admitted peer still chokes us:
\* get_best_peers_for_download returns the empty list, and every piece is
\* assigned over the first min(5, number of peers) admitted peers, whatever
\* the peers do afterwards.
C39_AssignedOverFirstAdmitted ==
    /\ [][best_peers' # best_peers =>
             /\ best_peers = <<>>
             /\ \A p \in DOMAIN is_choking_us : is_choking_us[p]
             /\ \A i \in Pieces : fstate[i] = "unsubmitted" /\ tried[i] = {}
             /\ GetBestPeersForDownload(MAX_PEER_CONNECTIONS) = <<>>
             /\ best_peers' = Prefix(peers_list, MAX_PEER_CONNECTIONS)]_vars
    /\ [](\A i \in Pieces :
             fstate[i] # "unsubmitted" =>
                /\ Len(peers_list) <= MAX_PEER_CONNECTIONS =>
                      fpeer[i] = peers_list[(i % Len(peers_list)) + 1]
                /\ Len(peers_list) > MAX_PEER_CONNECTIONS =>
                      fpeer[i] = peers_list[(i % MAX_PEER_CONNECTIONS) + 1])

\* six peers were admitted, the first has unchoked us since, and piece 1 was
\* still assigned to the second of the first five
C39_Witness ==
    /\ Len(peers_list) = MAX_PEER_CONNECTIONS + 1
    /\ best_peers = Prefix(peers_list, MAX_PEER_CONNECTIONS)
    /\ GetBestPeersForDownload(MAX_PEER_CONNECTIONS) = <<1>>
    /\ num_pieces = 2
    /\ fstate[1] = "pending"
    /\ fpeer[1] = 2

\* C40: download_file fetches the pieces in index order, and attempts a piece
\* only when every piece before it is verified; the output file is created
\* only when all num_pieces pieces are verified, and holds them in index
\* order; when no peer yields verified bytes of a piece (the peer list may be
\* empty) it raises at that piece, and no output file is created.
C40_SequentialInOrder ==
    /\ [](program = "basic" =>
             /\ Len(downloaded_pieces) = piece_idx
             /\ \A k \in 1..Len(downloaded_pieces) :
                   VerifyPiece(downloaded_pieces[k],
                               ExpectedHash(pieces_hashes, k - 1))
             /\ file_exists =>
                   /\ outcome = "completed"
                   /\ piece_idx = num_pieces
                   /\ Len(file_chunks) = num_pieces
                   /\ \A k \in 1..Len(file_chunks) :
                         /\ file_chunks[k].idx = k - 1
                         /\ file_chunks[k].data = downloaded_pieces[k]
             /\ outcome = "completed" => file_exists
             /\ outcome = "error" =>
                   /\ ~file_exists
                   /\ piece_idx < num_pieces
                   /\ peer_idx = Len(peers_list)
             /\ mainPc = "done" => outcome \in {"completed", "error"})
    /\ [][program = "basic" =>
             /\ piece_idx' \in {piece_idx, piece_idx + 1}
             /\ (bsock' /\ ~bsock) =>
                   /\ piece_idx < num_pieces
                   /\ Len(downloaded_pieces) = piece_idx
             /\ downloaded_pieces' # downloaded_pieces =>
                   /\ piece_idx' = piece_idx + 1
                   /\ \E d \in PieceDatas :
                         downloaded_pieces' = Append(downloaded_pieces, d)]_vars

\* two pieces were downloaded one after the other, the second one from the
\* second peer after the first peer failed, and the file holds both
C40_Witness ==
    /\ program = "basic"
    /\ num_pieces = 2
    /\ outcome = "completed"
    /\ file_exists
    /\ Len(file_chunks) = 2
    /\ peer_idx = 2

\* a piece no peer served verified bytes of: the download raised at piece 1,
\* after piece 0, and there is no output file
C40_WitnessRaised ==
    /\ program = "basic"
    /\ num_pieces = 2
    /\ outcome = "error"
    /\ piece_idx = 1
    /\ ~file_exists

====
